---- MODULE Spec2Model ----
(***************************************************************************)
(* Model of the halsaveda-copilot retrieval core:                          *)
(*   - AdvancedEmbedder.generate_embeddings_batch  (advanced_embedder.py)  *)
(*   - SemanticChunker                             (semantic_chunker.py)   *)
(*   - TextChunker                                 (chunker.py)            *)
(*   - AdvancedEmbedder.enrich_metadata, create_index, upload_to_pinecone  *)
(*   - EmbeddingGenerator.upload_to_pinecone       (embedder.py)           *)
(*   - EmbeddingGenerator.embed_chunks             (embedder.py)           *)
(*   - HealthQueryEngine.search, HalsaVedaChatbot.chat                     *)
(*   - AdvancedEmbedder.process_chunks_file, alone, beside a running       *)
(*     query engine, and beside a second run on the same index name        *)
(* Each component has its own specification (SpecEmbed, SpecChunker,       *)
(* SpecLegacy, SpecEnrich, SpecIndex, SpecIndexFair, SpecUpload,           *)
(* SpecSearch, SpecGen, SpecPipeline, SpecServe, SpecRace); the variables  *)
(* of the other components stay idle.                                      *)
(***************************************************************************)
EXTENDS Integers, Sequences, FiniteSets, TLC

VARIABLES
    \* AdvancedEmbedder.generate_embeddings_batch
    texts,            \* the input list of texts (a text is a positive id)
    batch_size,       \* the batch_size parameter
    dimension,        \* self.dimension
    all_embeddings,   \* the list being built
    embed_i,          \* loop variable i of the batch loop (0-based start)
    retry_j,          \* position in the batch of the individual retry loop
    embed_pc,         \* "batch" | "retry" | "done"
    provider_calls,   \* log of the embeddings.create calls issued so far
    \* SemanticChunker
    document,         \* the document handed to chunk_by_sections
    max_chunk_size,   \* self.max_chunk_size
    chunks,           \* the list chunk_by_sections is building
    section_idx,      \* number of sections already processed
    provenance,       \* per chunk: the section and paragraph list it was built from
    chunker_pc,       \* "start" | "sections" | "done" | "idle"
    \* TextChunker
    chunk_size,       \* self.chunk_size
    chunk_overlap,    \* self.chunk_overlap
    words,            \* text.split()
    legacy_chunks,    \* the list chunk_text is building
    legacy_i,         \* loop variable i of chunk_text
    legacy_pc,        \* "new" | "constructed" | "loop" | "done" | "value_error" | "idle"
    \* AdvancedEmbedder.enrich_metadata
    enrich_input,     \* the chunk dicts handed to enrich_metadata, one after another
    enrich_out,       \* the metadata dicts it returned so far
    enrich_pc,        \* "run" | "done" | "idle"
    enrich_given,     \* the chunk dicts as they were when handed over
    \* vector store provider: the index named self.index_name
    idx_state,        \* "absent" | "initializing" | "ready" | "terminating"
    idx_records,      \* the records the index holds: [id, run, chunk]
    idx_config,       \* [dimension, metric] the index was created with
    \* AdvancedEmbedder.create_index
    index_pc,         \* "list" | "delete" | "sleep" | "create" | "poll" |
                      \* "returned" | "create_error" | "timeout" | "idle"
    polls,            \* describe_index calls made so far (saturates at MaxPolls)
    index_calls,      \* list/delete/create calls issued, each with the index
                      \* state the provider was in when it arrived
    old_records,      \* the records the index held when create_index was called
    \* upload_to_pinecone (AdvancedEmbedder and EmbeddingGenerator)
    uploader,         \* "advanced" | "legacy" | "none"
    upload_n,         \* number of embedded chunks handed to the upload
    upload_embeddings,\* their embeddings, in list order
    vectors,          \* the records prepared by the upload, in list order
    upload_i,         \* offset of the next batch (the loop variable i)
    upsert_calls,     \* index.upsert calls so far: [batch, ok, state], state
                      \* being the index state when the call was issued
    clock,            \* int(time.time())
    upload_pc,        \* "index" | "prepare" | "batches" | "stats" |
                      \* "returned" | "raised" | "idle"
    \* HealthQueryEngine.search and its caller HalsaVedaChatbot.chat
    search_query,     \* the query text
    top_k,            \* the requested number of matches
    search_calls,     \* provider calls issued by search, in order
    matches,          \* results['matches'] as the index provider returned them
    search_result,    \* the list search returns
    search_pc,        \* "embed" | "query" | "returned" | "raised" | "idle"
    chat_pc,          \* "search" | "generate" | "raised" | "idle"
    \* EmbeddingGenerator.embed_chunks
    gen_chunks,       \* the chunks argument (a list of chunk dicts)
    gen_given,        \* the chunk dicts as they were when handed over
    gen_i,            \* number of chunks processed (the loop variable i)
    embedded_chunks,  \* the list embed_chunks is building
    gen_calls,        \* embeddings.create calls issued, in order
    gen_pc,           \* "loop" | "done" | "idle"
    \* AdvancedEmbedder.process_chunks_file
    pipe_pc,          \* "embed" | "index" | "upload" | "complete" | "raised" | "idle"
    pipe_initial,     \* the provider index as it was when the run started
    \* searches of a running HealthQueryEngine while an upload runs
    observed,         \* what each index.query found: the state of the queried
                      \* index and the records of this upload it held
    \* a second process_chunks_file run against the same index name
    other_pc,         \* "list" | "delete" | "sleep" | "create" | "create_error" |
                      \* "poll" | "returned" | "batches" | "stats" |
                      \* "complete" | "raised" | "idle"
    other_n,          \* number of chunks of the second run
    other_i           \* loop variable of the second run's upload loop

embedVars == <<texts, batch_size, dimension, all_embeddings, embed_i, retry_j,
               embed_pc, provider_calls>>
chunkerVars == <<document, max_chunk_size, chunks, section_idx, provenance, chunker_pc>>
legacyVars == <<chunk_size, chunk_overlap, words, legacy_chunks, legacy_i, legacy_pc>>
enrichVars == <<enrich_input, enrich_out, enrich_pc, enrich_given>>
providerVars == <<idx_state, idx_records, idx_config>>
indexVars == <<index_pc, polls, index_calls, old_records>>
uploadVars == <<uploader, upload_n, upload_embeddings, vectors, upload_i, upsert_calls,
               clock, upload_pc>>
searchVars == <<search_query, top_k, search_calls, matches, search_result, search_pc, chat_pc>>
genVars == <<gen_chunks, gen_given, gen_i, embedded_chunks, gen_calls, gen_pc>>
pipeVars == <<pipe_pc, pipe_initial>>
serveVars == <<observed>>
otherVars == <<other_pc, other_n, other_i>>
serviceVars == <<enrichVars, providerVars, indexVars, uploadVars, searchVars, genVars,
                pipeVars, serveVars, otherVars>>
notEnrich ==
    <<embedVars, chunkerVars, legacyVars, providerVars, indexVars, uploadVars,
      searchVars, genVars, pipeVars, serveVars, otherVars>>
notIndex ==
    <<embedVars, chunkerVars, legacyVars, enrichVars, uploadVars, searchVars,
      genVars, pipeVars, serveVars, otherVars>>
notUpload ==
    <<embedVars, chunkerVars, legacyVars, enrichVars, indexVars, searchVars,
      genVars, pipeVars, serveVars, otherVars>>
notSearch ==
    <<embedVars, chunkerVars, legacyVars, enrichVars, providerVars, indexVars,
      uploadVars, genVars, pipeVars, serveVars, otherVars>>
notGen ==
    <<embedVars, chunkerVars, legacyVars, enrichVars, providerVars, indexVars,
      uploadVars, searchVars, pipeVars, serveVars, otherVars>>
vars == <<embedVars, chunkerVars, legacyVars, serviceVars>>

\* ------------------------------------------------------------------ bounds
MaxTexts == 4
MaxBatchSize == 3
MaxDimension == 2
NumTextIds == 2

\* ----------------------------------------------------------------- helpers
Min(a, b) == IF a < b THEN a ELSE b

Range(f) == {f[x] : x \in DOMAIN f}

\* Python's s[lo:hi] on a list (0-based, hi exclusive, clipped to the list).
Slice(s, lo, hi) == SubSeq(s, lo + 1, Min(hi, Len(s)))

\* All sequences over S of length 0..n.
SeqsUpTo(S, n) == UNION {[1..k -> S] : k \in 0..n}

\* =========================================================================
\* AdvancedEmbedder.generate_embeddings_batch
\* =========================================================================

\* The vector the embedding provider returns for one text: `dimension`
\* components, never the all-zero vector (a text id is positive).
ProviderVec(t) == [k \in 1..dimension |-> t]

\* [item.embedding for item in response.data]: one vector per input text,
\* positionally aligned with the input (the provider's contract).
BatchEmbeddings(batch) == [k \in 1..Len(batch) |-> ProviderVec(batch[k])]

PlaceholderShort == <<0>>
\* [0.0] * self.dimension
Placeholder == [k \in 1..dimension |-> 0]

\* batch = texts[i:i + batch_size]
Batch == Slice(texts, embed_i, embed_i + batch_size)

OnRetryFailureDrop(embs) == embs
\* except Exception as retry_e: all_embeddings.append([0.0] * self.dimension)
OnRetryFailure(embs) == Append(embs, Placeholder)

Call(kind, lo, hi, ok) == [kind |-> kind, lo |-> lo, hi |-> hi, ok |-> ok]

EmbedInit ==
    /\ texts \in SeqsUpTo(1..NumTextIds, MaxTexts)
    /\ batch_size \in 1..MaxBatchSize
    /\ dimension \in 1..MaxDimension
    /\ all_embeddings = <<>>
    /\ embed_i = 0
    /\ retry_j = 0
    /\ embed_pc = "batch"
    /\ provider_calls = <<>>

EmbedIdle ==
    /\ texts = <<>>
    /\ batch_size = 1
    /\ dimension = 1
    /\ all_embeddings = <<>>
    /\ embed_i = 0
    /\ retry_j = 0
    /\ embed_pc = "idle"
    /\ provider_calls = <<>>

\* The batch call succeeds: extend with the batch's vectors, next batch.
EmbedBatchSuccess ==
    /\ embed_pc = "batch"
    /\ embed_i < Len(texts)
    /\ all_embeddings' = all_embeddings \o BatchEmbeddings(Batch)
    /\ provider_calls' = Append(provider_calls,
           Call("batch", embed_i + 1, embed_i + Len(Batch), TRUE))
    /\ embed_i' = embed_i + batch_size
    /\ UNCHANGED <<texts, batch_size, dimension, retry_j, embed_pc>>
    /\ UNCHANGED <<chunkerVars, legacyVars, serviceVars>>

\* The batch call raises: enter the per-item retry loop over the same batch.
EmbedBatchFailure ==
    /\ embed_pc = "batch"
    /\ embed_i < Len(texts)
    /\ provider_calls' = Append(provider_calls,
           Call("batch", embed_i + 1, embed_i + Len(Batch), FALSE))
    /\ retry_j' = 1
    /\ embed_pc' = "retry"
    /\ UNCHANGED <<texts, batch_size, dimension, all_embeddings, embed_i>>
    /\ UNCHANGED <<chunkerVars, legacyVars, serviceVars>>

RetryAdvanceSkipLast ==
    IF retry_j >= Len(Batch) - 1
    THEN /\ retry_j' = 0
         /\ embed_i' = embed_i + batch_size
         /\ embed_pc' = "batch"
    ELSE /\ retry_j' = retry_j + 1
         /\ UNCHANGED <<embed_i, embed_pc>>
\* End of one iteration of `for text in batch`.
RetryAdvance ==
    IF retry_j = Len(Batch)
    THEN /\ retry_j' = 0
         /\ embed_i' = embed_i + batch_size
         /\ embed_pc' = "batch"
    ELSE /\ retry_j' = retry_j + 1
         /\ UNCHANGED <<embed_i, embed_pc>>

\* The individual call for batch[retry_j] succeeds.
EmbedRetrySuccess ==
    /\ embed_pc = "retry"
    /\ all_embeddings' = Append(all_embeddings, ProviderVec(Batch[retry_j]))
    /\ provider_calls' = Append(provider_calls,
           Call("single", embed_i + retry_j, embed_i + retry_j, TRUE))
    /\ RetryAdvance
    /\ UNCHANGED <<texts, batch_size, dimension>>
    /\ UNCHANGED <<chunkerVars, legacyVars, serviceVars>>

\* The individual call for batch[retry_j] raises too: placeholder vector.
EmbedRetryFailure ==
    /\ embed_pc = "retry"
    /\ all_embeddings' = OnRetryFailure(all_embeddings)
    /\ provider_calls' = Append(provider_calls,
           Call("single", embed_i + retry_j, embed_i + retry_j, FALSE))
    /\ RetryAdvance
    /\ UNCHANGED <<texts, batch_size, dimension>>
    /\ UNCHANGED <<chunkerVars, legacyVars, serviceVars>>

\* range(0, len(texts), batch_size) is exhausted: return all_embeddings.
EmbedReturn ==
    /\ embed_pc = "batch"
    /\ embed_i >= Len(texts)
    /\ embed_pc' = "done"
    /\ UNCHANGED <<texts, batch_size, dimension, all_embeddings, embed_i, retry_j,
                   provider_calls>>
    /\ UNCHANGED <<chunkerVars, legacyVars, serviceVars>>

\* =========================================================================
\* TextChunker (legacy fixed chunking)
\* =========================================================================
MaxWords == 8
MaxChunkSize == 3

\* chunk_size - chunk_overlap, the step of the range() in chunk_text
Stride == chunk_size - chunk_overlap

StopConditionStrict(i) == i + chunk_size > Len(words)
\* if i + self.chunk_size >= len(words): break
StopCondition(i) == i + chunk_size >= Len(words)

WindowShifted(i) == Slice(words, i + 1, i + chunk_size)
\* chunk_words = words[i:i + self.chunk_size]
Window(i) == Slice(words, i, i + chunk_size)

\* The chunk dict built in the loop body; 'text' is ' '.join(chunk_words),
\* kept as the list of joined words (a word is its position in the text).
LegacyChunk(i) ==
    [text |-> Window(i),
     chunk_index |-> Len(legacy_chunks),
     word_count |-> Len(Window(i))]

\* i is produced by range(0, len(words), stride): a negative step from 0
\* towards a non-negative stop yields nothing.
InRange(i) == Stride > 0 /\ i < Len(words)

\* chunker = TextChunker(chunk_size=300, chunk_overlap=50)
MainChunkSize == 300
MainChunkOverlap == 50

\* Text lengths tried with the configuration of the main block.
MainWordCounts == {0, 1, 50, 51, 299, 300, 301, 550, 551, 800, 801}

LegacyInit ==
    /\ \/ /\ chunk_size \in 1..MaxChunkSize
          /\ chunk_overlap \in 0..(MaxChunkSize + 1)
          /\ \E n \in 0..MaxWords : words = [k \in 1..n |-> k]
       \/ /\ chunk_size = MainChunkSize
          /\ chunk_overlap = MainChunkOverlap
          /\ \E n \in MainWordCounts : words = [k \in 1..n |-> k]
    /\ legacy_chunks = <<>>
    /\ legacy_i = 0
    /\ legacy_pc = "new"

LegacyIdle ==
    /\ chunk_size = 1
    /\ chunk_overlap = 0
    /\ words = <<>>
    /\ legacy_chunks = <<>>
    /\ legacy_i = 0
    /\ legacy_pc = "idle"

\* TextChunker.__init__: stores the two parameters, validates nothing.
LegacyConstruct ==
    /\ legacy_pc = "new"
    /\ legacy_pc' = "constructed"
    /\ UNCHANGED <<chunk_size, chunk_overlap, words, legacy_chunks, legacy_i>>
    /\ UNCHANGED <<embedVars, chunkerVars, serviceVars>>

\* chunk_text up to the creation of the range object: range() raises
\* ValueError when its step is zero.
LegacyChunkTextEnter ==
    /\ legacy_pc = "constructed"
    /\ legacy_pc' = IF Stride = 0 THEN "value_error" ELSE "loop"
    /\ UNCHANGED <<chunk_size, chunk_overlap, words, legacy_chunks, legacy_i>>
    /\ UNCHANGED <<embedVars, chunkerVars, serviceVars>>

\* One iteration of the for loop: emit the window, then break or step.
LegacyLoopIteration ==
    /\ legacy_pc = "loop"
    /\ InRange(legacy_i)
    /\ legacy_chunks' = Append(legacy_chunks, LegacyChunk(legacy_i))
    /\ IF StopCondition(legacy_i)
       THEN legacy_pc' = "done" /\ UNCHANGED legacy_i
       ELSE legacy_i' = legacy_i + Stride /\ UNCHANGED legacy_pc
    /\ UNCHANGED <<chunk_size, chunk_overlap, words>>
    /\ UNCHANGED <<embedVars, chunkerVars, serviceVars>>

\* The range is exhausted: return chunks.
LegacyLoopExit ==
    /\ legacy_pc = "loop"
    /\ ~InRange(legacy_i)
    /\ legacy_pc' = "done"
    /\ UNCHANGED <<chunk_size, chunk_overlap, words, legacy_chunks, legacy_i>>
    /\ UNCHANGED <<embedVars, chunkerVars, serviceVars>>

\* =========================================================================
\* SemanticChunker (section-aware chunking)
\* A text is a sequence of one-character strings; " " is whitespace.
\* =========================================================================
MaxSections == 2
MaxParas == 3
MaxChunkWords == 3

RECURSIVE SplitLoop(_, _, _, _)
SplitLoop(s, k, cur, out) ==
    IF k > Len(s)
    THEN IF cur = <<>> THEN out ELSE Append(out, cur)
    ELSE IF s[k] = " "
         THEN SplitLoop(s, k + 1, <<>>, IF cur = <<>> THEN out ELSE Append(out, cur))
         ELSE SplitLoop(s, k + 1, Append(cur, s[k]), out)

\* str.split(): the maximal runs of non-whitespace characters, in order.
Split(s) == SplitLoop(s, 1, <<>>, <<>>)

RECURSIVE JoinLoop(_, _, _, _)
JoinLoop(sep, parts, k, out) ==
    IF k > Len(parts) THEN out
    ELSE JoinLoop(sep, parts, k + 1, out \o sep \o parts[k])

\* sep.join(parts)
Join(sep, parts) ==
    IF parts = <<>> THEN <<>> ELSE JoinLoop(sep, parts, 2, parts[1])

\* ' '.join(parts)
JoinSpace(parts) == Join(<<" ">>, parts)

\* SemanticChunker.word_count: len(text.split())
WordCount(text) == Len(Split(text))

\* f"{heading}. {body}"
HeadedText(heading, body) == heading \o <<".", " ">> \o body

\* the else branch of `if self.word_count(full_section_text) > self.max_chunk_size`
FitsWhole(text) == ~(WordCount(text) > max_chunk_size)

SectionChunkCountsHeading(section) ==
    [text |-> HeadedText(section.heading, JoinSpace(section.content)),
     heading |-> section.heading,
     section_level |-> section.level,
     word_count |-> WordCount(HeadedText(section.heading, JoinSpace(section.content))),
     chunk_type |-> "section"]
\* the chunk dict of a section kept as one chunk
SectionChunk(section) ==
    [text |-> HeadedText(section.heading, JoinSpace(section.content)),
     heading |-> section.heading,
     section_level |-> section.level,
     word_count |-> WordCount(JoinSpace(section.content)),
     chunk_type |-> "section"]

\* the chunk dict appended by split_long_section, with the paragraph list
\* it was built from (current_chunk_paras)
PartChunk(heading, paras, wc) ==
    [chunk |-> [text |-> HeadedText(heading, JoinSpace(paras)),
                heading |-> heading,
                word_count |-> wc,
                chunk_type |-> "section_part"],
     paras |-> paras]

MustFlushLate(cur_wc, para_words, cur_paras) ==
    cur_wc > max_chunk_size /\ cur_paras # <<>>
\* if current_word_count + para_words > self.max_chunk_size and current_chunk_paras
MustFlush(cur_wc, para_words, cur_paras) ==
    cur_wc + para_words > max_chunk_size /\ cur_paras # <<>>

ResetCountKeep(wc) == wc
\* current_word_count = 0 after a chunk is saved
ResetCount(wc) == 0

AddRemainingNever(heading, out, cur_paras, cur_wc) == out
\* if current_chunk_paras: chunks.append({... remaining paragraphs ...})
AddRemaining(heading, out, cur_paras, cur_wc) ==
    IF cur_paras # <<>> THEN Append(out, PartChunk(heading, cur_paras, cur_wc)) ELSE out

RECURSIVE SplitParas(_, _, _, _, _, _)
SplitParas(heading, paragraphs, k, out, cur_paras, cur_wc) ==
    IF k > Len(paragraphs)
    THEN AddRemaining(heading, out, cur_paras, cur_wc)
    ELSE LET para == paragraphs[k]
             para_words == WordCount(para)
             flush == MustFlush(cur_wc, para_words, cur_paras)
             out2 == IF flush THEN Append(out, PartChunk(heading, cur_paras, cur_wc))
                     ELSE out
             paras2 == IF flush THEN <<>> ELSE cur_paras
             wc2 == IF flush THEN ResetCount(cur_wc) ELSE cur_wc
         IN SplitParas(heading, paragraphs, k + 1, out2,
                       Append(paras2, para), wc2 + para_words)

\* SemanticChunker.split_long_section: each entry is a chunk and the
\* paragraphs it holds.
SplitLongSection(heading, paragraphs) ==
    SplitParas(heading, paragraphs, 1, <<>>, <<>>, 0)

RECURSIVE FallbackLoop(_, _, _)
FallbackLoop(ws, i, out) ==
    IF i >= Len(ws) THEN out
    ELSE LET chunk_words == Slice(ws, i, i + max_chunk_size)
         IN FallbackLoop(ws, i + max_chunk_size,
                Append(out, [text |-> JoinSpace(chunk_words),
                             heading |-> <<"C", "o", "n", "t", "e", "n", "t">>,
                             word_count |-> Len(chunk_words),
                             chunk_type |-> "fallback"]))

FallbackChunkFullOnly(doc) ==
    SelectSeq(FallbackLoop(Split(doc.content), 0, <<>>),
              LAMBDA c : c.word_count = max_chunk_size)
\* SemanticChunker.fallback_chunk
FallbackChunk(doc) == FallbackLoop(Split(doc.content), 0, <<>>)

\* ------------------------------------------------------------ the inputs
\* Paragraph texts: "", " ", "a", "b c", " d  e f "
ParaTexts ==
    { <<>>, <<" ">>, <<"a">>, <<"b", " ", "c">>,
      <<" ", "d", " ", " ", "e", " ", "f", " ">> }

\* The heading of the k-th section of a document: "H", "H h", "H h h", ...
\* (distinct per section, with inner whitespace from the second on).
HeadingOf(k) == <<"H">> \o [j \in 1..(2 * (k - 1)) |-> IF j % 2 = 1 THEN " " ELSE "h"]

\* Its level, one of 1..4.
LevelOf(k) == ((k - 1) % 4) + 1

\* Raw document texts: "", "a", " a b  c d "
RawContents ==
    { <<>>, <<"a">>, <<" ", "a", " ", "b", " ", " ", "c", " ", "d", " ">> }

\* The lists of sections numbered from n on, at most s of them, holding at
\* most t paragraphs in all.
RECURSIVE SectionLists(_, _, _)
SectionLists(n, s, t) ==
    IF s = 0 THEN { <<>> }
    ELSE { <<>> } \cup
         UNION { { <<[heading |-> HeadingOf(n), level |-> LevelOf(n), content |-> c]>>
                   \o rest :
                       c \in [1..k -> ParaTexts],
                       rest \in SectionLists(n + 1, s - 1, t - k) } :
                 k \in 0..t }

\* A document with structured_content: chunk_by_sections never reads its
\* 'content' on that path, so one non-empty raw text stands for all.
\* A document without it: any raw text.
Documents ==
    { [structured |-> TRUE, sections |-> ss, content |-> <<"a">>] :
        ss \in SectionLists(1, MaxSections, MaxParas) }
    \cup
    { [structured |-> FALSE, sections |-> <<>>, content |-> c] : c \in RawContents }

\* The document of the scenario: one section "Fever", level 2, with the
\* paragraphs "Adults should rest." and
\* "See a doctor if fever exceeds three days."
FeverHeading ==
    <<"F", "e", "v", "e", "r">>
FeverPara1 ==
    <<"A", "d", "u", "l", "t", "s", " ", "s", "h", "o", "u", "l",
        "d", " ", "r", "e", "s", "t", ".">>
FeverPara2 ==
    <<"S", "e", "e", " ", "a", " ", "d", "o", "c", "t", "o", "r",
        " ", "i", "f", " ", "f", "e", "v", "e", "r", " ", "e", "x",
        "c", "e", "e", "d", "s", " ", "t", "h", "r", "e", "e", " ",
        "d", "a", "y", "s", ".">>
FeverDocument ==
    [structured |-> TRUE,
     sections |-> << [heading |-> FeverHeading, level |-> 2,
                      content |-> <<FeverPara1, FeverPara2>>] >>,
     content |-> <<>>]

\* SemanticChunker(min_chunk_size=100, max_chunk_size=500): the default
DefaultMaxChunkSize == 500

ChunkerInit ==
    /\ \/ /\ document \in Documents
          /\ max_chunk_size \in 1..MaxChunkWords
       \/ /\ document = FeverDocument
          /\ max_chunk_size \in {MaxChunkWords, DefaultMaxChunkSize}
    /\ chunks = <<>>
    /\ section_idx = 0
    /\ provenance = <<>>
    /\ chunker_pc = "start"

ChunkerIdle ==
    /\ document = [structured |-> FALSE, sections |-> <<>>, content |-> <<>>]
    /\ max_chunk_size = 1
    /\ chunks = <<>>
    /\ section_idx = 0
    /\ provenance = <<>>
    /\ chunker_pc = "idle"

UsesFallbackWithoutSections(doc) == ~doc.structured \/ doc.sections = <<>>
\* 'structured_content' not in document
UsesFallback(doc) == ~doc.structured

\* if 'structured_content' not in document: return self.fallback_chunk(document)
ChunkFallback ==
    /\ chunker_pc = "start"
    /\ UsesFallback(document)
    /\ chunks' = FallbackChunk(document)
    /\ provenance' = [k \in 1..Len(FallbackChunk(document)) |->
                         [section |-> 0, paras |-> <<>>]]
    /\ chunker_pc' = "done"
    /\ UNCHANGED <<document, max_chunk_size, section_idx>>
    /\ UNCHANGED <<embedVars, legacyVars, serviceVars>>

\* sections = document['structured_content']['sections']
ChunkEnterSections ==
    /\ chunker_pc = "start"
    /\ ~UsesFallback(document)
    /\ chunker_pc' = "sections"
    /\ UNCHANGED <<document, max_chunk_size, chunks, section_idx, provenance>>
    /\ UNCHANGED <<embedVars, legacyVars, serviceVars>>

\* One iteration of `for section in sections`, else branch: one chunk.
ChunkSectionWhole ==
    /\ chunker_pc = "sections"
    /\ section_idx < Len(document.sections)
    /\ LET section == document.sections[section_idx + 1]
       IN /\ FitsWhole(JoinSpace(section.content))
          /\ chunks' = Append(chunks, SectionChunk(section))
          /\ provenance' = Append(provenance,
                 [section |-> section_idx + 1, paras |-> section.content])
    /\ section_idx' = section_idx + 1
    /\ UNCHANGED <<document, max_chunk_size, chunker_pc>>
    /\ UNCHANGED <<embedVars, legacyVars, serviceVars>>

\* One iteration of `for section in sections`, if branch: split_long_section.
ChunkSectionSplit ==
    /\ chunker_pc = "sections"
    /\ section_idx < Len(document.sections)
    /\ LET section == document.sections[section_idx + 1]
           sub_chunks == SplitLongSection(section.heading, section.content)
       IN /\ ~FitsWhole(JoinSpace(section.content))
          /\ chunks' = chunks \o [k \in 1..Len(sub_chunks) |-> sub_chunks[k].chunk]
          /\ provenance' = provenance \o
                 [k \in 1..Len(sub_chunks) |->
                     [section |-> section_idx + 1, paras |-> sub_chunks[k].paras]]
    /\ section_idx' = section_idx + 1
    /\ UNCHANGED <<document, max_chunk_size, chunker_pc>>
    /\ UNCHANGED <<embedVars, legacyVars, serviceVars>>

\* The section loop is over: return chunks.
ChunkReturn ==
    /\ chunker_pc = "sections"
    /\ section_idx = Len(document.sections)
    /\ chunker_pc' = "done"
    /\ UNCHANGED <<document, max_chunk_size, chunks, section_idx, provenance>>
    /\ UNCHANGED <<embedVars, legacyVars, serviceVars>>

\* =========================================================================
\* AdvancedEmbedder.enrich_metadata
\* A dict is a function from its keys; a URL is the sequence of its path
\* segments, and `marker in url` holds when a segment is the marker.
\* =========================================================================
MaxUrlSegments == 2

EmptyDict == [x \in {} |-> 0]

\* d.get(k, default)
Get(d, k, default) == IF k \in DOMAIN d THEN d[k] ELSE default

\* d[k] = v
Put(d, k, v) == [x \in (DOMAIN d) \cup {k} |-> IF x = k THEN v ELSE d[x]]

\* marker in url
Contains(url, marker) == \E k \in DOMAIN url : url[k] = marker

CategorizeCareFirst(url) ==
    IF Contains(url, "hitta-vard") THEN "finding_care"
    ELSE IF Contains(url, "sjukdomar--besvar") THEN "diseases_conditions"
    ELSE IF Contains(url, "barn--gravid") THEN "children_pregnancy"
    ELSE IF Contains(url, "liv--halsa") THEN "lifestyle_health"
    ELSE "other"
\* the if/elif chain over the URL; "liv--halsa" stands for the marker
\* spelled with a-umlaut in the source
Categorize(url) ==
    IF Contains(url, "sjukdomar--besvar") THEN "diseases_conditions"
    ELSE IF Contains(url, "barn--gravid") THEN "children_pregnancy"
    ELSE IF Contains(url, "liv--halsa") THEN "lifestyle_health"
    ELSE IF Contains(url, "hitta-vard") THEN "finding_care"
    ELSE "other"

\* The dict enrich_metadata returns: chunk's own metadata dict (or a new
\* empty one) with category, chunk_length, chunk_type and heading set.
EnrichMetadata(chunk) ==
    LET metadata == Get(chunk, "metadata", EmptyDict)
        url == Get(metadata, "url", <<>>)
        m1 == Put(metadata, "category", Categorize(url))
        m2 == Put(m1, "chunk_length", Get(chunk, "word_count", 0))
        m3 == Put(m2, "chunk_type", Get(chunk, "chunk_type", "unknown"))
    IN Put(m3, "heading", Slice(Get(chunk, "heading", <<>>), 0, 100))

\* The chunk after the call: chunk.get('metadata', {}) is the chunk's own
\* dict when the key is there, so the assignments land in the chunk.
ChunkAfterEnrich(chunk) ==
    IF "metadata" \in DOMAIN chunk
    THEN Put(chunk, "metadata", EnrichMetadata(chunk))
    ELSE chunk

\* URL path segments: the four markers and one segment that is none of them.
UrlSegments ==
    {"sjukdomar--besvar", "barn--gravid", "liv--halsa", "hitta-vard", "kontakt"}

Urls == SeqsUpTo(UrlSegments, MaxUrlSegments)

\* The metadata a chunk comes with: none, an empty dict, or url and title.
MetadataInputs ==
    {EmptyDict} \cup {[url |-> u, title |-> "T"] : u \in Urls}

\* The other keys of a chunk: all present (with a heading of 101
\* characters), or none.
ChunkShapes ==
    { [text |-> "t", word_count |-> 7, chunk_type |-> "section",
       heading |-> [j \in 1..101 |-> "x"]],
      [text |-> "t"] }

EnrichChunks ==
    ChunkShapes \cup
    {[text |-> "t", metadata |-> m] : m \in MetadataInputs} \cup
    {Put(CHOOSE c \in ChunkShapes : "heading" \in DOMAIN c, "metadata", m) :
        m \in MetadataInputs}

EnrichInit ==
    /\ enrich_input \in [1..2 -> EnrichChunks]
    /\ enrich_out = <<>>
    /\ enrich_pc = "run"
    /\ enrich_given = enrich_input

EnrichIdle ==
    /\ enrich_input = <<>>
    /\ enrich_out = <<>>
    /\ enrich_pc = "idle"
    /\ enrich_given = <<>>

\* One call of enrich_metadata, on the next chunk of the list.
EnrichCall ==
    /\ enrich_pc = "run"
    /\ Len(enrich_out) < Len(enrich_input)
    /\ LET k == Len(enrich_out) + 1
       IN /\ enrich_out' = Append(enrich_out, EnrichMetadata(enrich_input[k]))
          /\ enrich_input' = [enrich_input EXCEPT ![k] = ChunkAfterEnrich(enrich_input[k])]
    /\ UNCHANGED <<enrich_pc, enrich_given>>
    /\ UNCHANGED notEnrich

\* Every chunk of the list has been enriched.
EnrichDone ==
    /\ enrich_pc = "run"
    /\ Len(enrich_out) = Len(enrich_input)
    /\ enrich_pc' = "done"
    /\ UNCHANGED <<enrich_input, enrich_out, enrich_given>>
    /\ UNCHANGED notEnrich

\* =========================================================================
\* AdvancedEmbedder.create_index and the vector store provider
\* =========================================================================
MaxPolls == 3
MaxOldRecords == 2

IndexDimension == 1536

\* The configuration create_index asks for.
NewConfig == [dimension |-> IndexDimension, metric |-> "cosine"]

\* Configurations an index left by an earlier run can have.
OldConfigs ==
    {[dimension |-> d, metric |-> m] :
        d \in {IndexDimension, 2 * IndexDimension}, m \in {"cosine", "euclidean"}}

NoConfig == [dimension |-> 0, metric |-> "none"]

\* The id of the record built from the i-th chunk (0-based): the advanced
\* uploader writes f"chunk_{i}", the legacy one f"chunk_{i}_{int(time.time())}".
VectorId(u, i, t) == IF u = "advanced" THEN <<i>> ELSE <<i, t>>

VectorsOfShifted(u, n, embs, t, tick, run) ==
    [k \in 1..(Min(n, Len(embs)) - 1) |->
        [id |-> VectorId(u, k - 1, IF k - 1 >= tick THEN t + 1 ELSE t),
         values |-> embs[k + 1], run |-> run, chunk |-> k - 1]]
\* The record list an upload of n chunks with the embeddings embs prepares
\* (one record per pair of zip(chunks, embeddings)); the clock reads t for
\* the chunks before position tick and t + 1 from there on.  run tells the
\* upload that built the record; chunk tells the chunk its metadata and
\* text preview were taken from.
VectorsOf(u, n, embs, t, tick, run) ==
    [k \in 1..Min(n, Len(embs)) |->
        [id |-> VectorId(u, k - 1, IF k - 1 >= tick THEN t + 1 ELSE t),
         values |-> embs[k], run |-> run, chunk |-> k - 1]]

\* Embeddings of n chunks when only their positions matter.
PositionEmbeddings(n) == [k \in 1..n |-> <<k>>]

\* What an earlier upload of m chunks by uploader u (run 0, at time 0) stored.
EarlierRecords(u, m) == Range(VectorsOf(u, m, PositionEmbeddings(m), 0, m, 0))

\* self.index_name in [idx.name for idx in self.pc.list_indexes()]
Listed == idx_state # "absent"

NextAfterListReuse(exists) == IF exists THEN "poll" ELSE "create"
\* the branch taken after the list call
NextAfterList(exists) == IF exists THEN "delete" ELSE "create"

PollNextGiveUp(ready) == IF ready THEN "returned" ELSE "timeout"
\* while not ready: sleep and poll again; otherwise return the handle
PollNext(ready) == IF ready THEN "returned" ELSE "poll"

\* The provider before any run: no index, or one an earlier run left
\* (ready with some vectors, or created and not yet ready).
ProviderInit ==
    \/ /\ idx_state = "absent"
       /\ idx_records = {}
       /\ idx_config = NoConfig
    \/ /\ idx_state = "ready"
       /\ idx_records \in {EarlierRecords("advanced", m) : m \in 0..MaxOldRecords}
       /\ idx_config \in OldConfigs
    \/ /\ idx_state = "initializing"
       /\ idx_records = {}
       /\ idx_config \in OldConfigs

ProviderIdle ==
    /\ idx_state = "absent"
    /\ idx_records = {}
    /\ idx_config = NoConfig

IndexInit ==
    /\ index_pc = "list"
    /\ polls = 0
    /\ index_calls = <<>>
    /\ old_records = idx_records

IndexIdle ==
    /\ index_pc = "idle"
    /\ polls = 0
    /\ index_calls = <<>>
    /\ old_records = {}

IndexCall(op) == [op |-> op, state |-> idx_state]

\* if self.index_name in [idx.name for idx in self.pc.list_indexes()]
IndexList ==
    /\ index_pc = "list"
    /\ index_calls' = Append(index_calls, IndexCall("list_indexes"))
    /\ index_pc' = NextAfterList(Listed)
    /\ UNCHANGED <<polls, old_records, providerVars>>
    /\ UNCHANGED notIndex

\* self.pc.delete_index(self.index_name): the provider starts deleting
IndexDelete ==
    /\ index_pc = "delete"
    /\ index_calls' = Append(index_calls, IndexCall("delete_index"))
    /\ idx_state' = "terminating"
    /\ index_pc' = "sleep"
    /\ UNCHANGED <<polls, old_records, idx_records, idx_config>>
    /\ UNCHANGED notIndex

\* time.sleep(5): a fixed pause, nothing is read from the provider
IndexSleep ==
    /\ index_pc = "sleep"
    /\ index_pc' = "create"
    /\ UNCHANGED <<polls, index_calls, old_records, providerVars>>
    /\ UNCHANGED notIndex

\* self.pc.create_index(name, dimension, metric='cosine', spec): accepted
\* when the name is free, refused (the call raises) when it is taken
IndexCreate ==
    /\ index_pc = "create"
    /\ index_calls' = Append(index_calls, IndexCall("create_index"))
    /\ IF idx_state = "absent"
       THEN /\ idx_state' = "initializing"
            /\ idx_records' = {}
            /\ idx_config' = NewConfig
            /\ index_pc' = "poll"
       ELSE /\ index_pc' = "create_error"
            /\ UNCHANGED providerVars
    /\ UNCHANGED <<polls, old_records>>
    /\ UNCHANGED notIndex

\* while not self.pc.describe_index(name).status['ready']: time.sleep(2)
\* and, once ready, return self.pc.Index(name)
IndexPoll ==
    /\ index_pc = "poll"
    /\ polls' = Min(polls + 1, MaxPolls)
    /\ index_pc' = PollNext(idx_state = "ready")
    /\ UNCHANGED <<index_calls, old_records, providerVars>>
    /\ UNCHANGED notIndex

\* The provider finishes a deletion.
ProviderFinishDelete ==
    /\ idx_state = "terminating"
    /\ idx_state' = "absent"
    /\ idx_records' = {}
    /\ idx_config' = NoConfig
    /\ UNCHANGED indexVars
    /\ UNCHANGED notIndex

\* The provider finishes building a created index.
ProviderBecomeReady ==
    /\ idx_state = "initializing"
    /\ idx_state' = "ready"
    /\ UNCHANGED <<idx_records, idx_config>>
    /\ UNCHANGED indexVars
    /\ UNCHANGED notIndex

\* =========================================================================
\* upload_to_pinecone: AdvancedEmbedder (advanced) and EmbeddingGenerator
\* (legacy).  The provider index is the one named self.index_name.
\* =========================================================================
MaxBatches == 2

UploadBatchSize == 100

LegacyStatsSleep == 2

\* Numbers of chunks handed to an upload: none, one, and around each
\* multiple of the batch size.
RecordCounts ==
    {0, 1} \cup {UploadBatchSize * k + d : k \in 1..MaxBatches, d \in {0, 1}}

\* Numbers of records an earlier upload left in the index.
EarlierCounts == {0, 1, UploadBatchSize + 1}

UploadSliceOverlap(vs, i) == Slice(vs, i, i + UploadBatchSize + 1)
\* batch = vectors[i:i + batch_size]
UploadSlice(vs, i) == Slice(vs, i, i + UploadBatchSize)

\* index.upsert(vectors=batch) on the provider: insert or overwrite by id
Upsert(records, batch) ==
    {r \in records : \A k \in DOMAIN batch : batch[k].id # r.id} \cup Range(batch)

\* What follows an upsert that raised: the advanced loop has no handler,
\* the legacy loop catches the exception and goes on.
OnUpsertFailure(u) == IF u = "advanced" THEN "raised" ELSE "batches"

\* Positions at which the clock can tick while the legacy upload builds its
\* n records (n: no tick); the advanced upload never reads the clock.
TickChoices(u, n) == IF u = "advanced" \/ n = 0 THEN {n} ELSE {1, n}

UploadInit ==
    /\ uploader \in {"advanced", "legacy"}
    /\ upload_n \in RecordCounts
    /\ upload_embeddings = PositionEmbeddings(upload_n)
    /\ vectors = <<>>
    /\ upload_i = 0
    /\ upsert_calls = <<>>
    /\ clock = LegacyStatsSleep
    /\ upload_pc = "index"

\* The index the upload finds: none, or a ready one holding what an earlier
\* upload by the same uploader stored.
UploadProviderInit ==
    \/ ProviderIdle
    \/ /\ idx_state = "ready"
       /\ idx_records \in {EarlierRecords(uploader, m) : m \in EarlierCounts}
       /\ idx_config = NewConfig

UploadIdle ==
    /\ uploader = "none"
    /\ upload_n = 0
    /\ upload_embeddings = <<>>
    /\ vectors = <<>>
    /\ upload_i = 0
    /\ upsert_calls = <<>>
    /\ clock = 0
    /\ upload_pc = "idle"

\* advanced: index = self.pc.Index(self.index_name)
\* legacy: index = self.create_pinecone_index(), which creates the index
\* when its name is not listed, sleeps 5 seconds, and returns the handle
UploadOpenIndex ==
    /\ upload_pc = "index"
    /\ IF uploader = "legacy" /\ ~Listed
       THEN /\ idx_state' = "initializing"
            /\ idx_records' = {}
            /\ idx_config' = NewConfig
       ELSE UNCHANGED providerVars
    /\ upload_pc' = "prepare"
    /\ UNCHANGED <<uploader, upload_n, upload_embeddings, vectors, upload_i, upsert_calls, clock>>
    /\ UNCHANGED notUpload

\* the loop that builds vectors, one record per embedded chunk
UploadPrepare ==
    /\ upload_pc = "prepare"
    /\ \E tick \in TickChoices(uploader, upload_n) :
           /\ vectors' = VectorsOf(uploader, upload_n, upload_embeddings, clock, tick, 1)
           /\ clock' = IF tick < upload_n THEN clock + 1 ELSE clock
    /\ upload_pc' = "batches"
    /\ UNCHANGED <<uploader, upload_n, upload_embeddings, upload_i, upsert_calls, providerVars>>
    /\ UNCHANGED notUpload

\* one iteration of for i in range(0, len(vectors), batch_size): the upsert
\* succeeds (only on a ready index) or raises
UploadBatch ==
    /\ upload_pc = "batches"
    /\ upload_i < Len(vectors)
    /\ \E ok \in {idx_state = "ready", FALSE} :
           LET batch == UploadSlice(vectors, upload_i)
           IN /\ upsert_calls' = Append(upsert_calls,
                     [batch |-> batch, ok |-> ok, state |-> idx_state])
              /\ idx_records' = IF ok THEN Upsert(idx_records, batch) ELSE idx_records
              /\ upload_pc' = IF ok THEN "batches" ELSE OnUpsertFailure(uploader)
              /\ upload_i' = IF ok \/ OnUpsertFailure(uploader) = "batches"
                             THEN upload_i + UploadBatchSize
                             ELSE upload_i
    /\ UNCHANGED <<uploader, upload_n, upload_embeddings, vectors, clock, idx_state, idx_config>>
    /\ UNCHANGED notUpload

\* the range is exhausted
UploadBatchesDone ==
    /\ upload_pc = "batches"
    /\ upload_i >= Len(vectors)
    /\ upload_pc' = "stats"
    /\ UNCHANGED <<uploader, upload_n, upload_embeddings, vectors, upload_i, upsert_calls, clock, providerVars>>
    /\ UNCHANGED notUpload

\* stats = index.describe_index_stats() (the legacy upload sleeps 2 seconds
\* first); the call raises when there is no such index
UploadStats ==
    /\ upload_pc = "stats"
    /\ clock' = IF uploader = "legacy" THEN clock + LegacyStatsSleep ELSE clock
    /\ upload_pc' = IF Listed THEN "returned" ELSE "raised"
    /\ UNCHANGED <<uploader, upload_n, upload_embeddings, vectors, upload_i, upsert_calls, providerVars>>
    /\ UNCHANGED notUpload

\* =========================================================================
\* HealthQueryEngine.search and HalsaVedaChatbot.chat
\* =========================================================================
MaxTopK == 3
MaxScore == 2

Queries == {"q1", "q2"}

\* response.data[0].embedding for the query text
QueryVec(q) == <<"embedding", q>>

\* The records of the queried index.  The legacy upload never replaces the
\* index, so a chunk uploaded by two runs is stored twice: records 1 and 2
\* carry the same text, title and url.
StoredMatches ==
    << [text |-> "a", title |-> "T1", url |-> "u1"],
       [text |-> "a", title |-> "T1", url |-> "u1"],
       [text |-> "b", title |-> "T2", url |-> "u2"] >>

IsInjective(f) == \A j \in DOMAIN f : \A k \in DOMAIN f : j # k => f[j] # f[k]

\* The answers the index provider can give to a query for k matches: at
\* most k distinct records, ranked by a score that depends on the text.
ProviderResponses(k) ==
    UNION { { [j \in DOMAIN ids |->
                  [id |-> ids[j],
                   score |-> sc[StoredMatches[ids[j]].text],
                   metadata |-> StoredMatches[ids[j]]]] :
              ids \in {x \in SeqsUpTo(DOMAIN StoredMatches, Min(k, Len(StoredMatches))) :
                          /\ IsInjective(x)
                          /\ \A j \in 1..(Len(x) - 1) :
                                 sc[StoredMatches[x[j]].text] >= sc[StoredMatches[x[j + 1]].text]} } :
            sc \in [{"a", "b"} -> 1..MaxScore] }

FormatResultsDedup(ms) ==
    LET keep == {k \in DOMAIN ms : \A j \in 1..(k - 1) : ms[j].metadata # ms[k].metadata}
        pick[k \in 0..Len(ms)] ==
            IF k = 0 THEN <<>>
            ELSE IF k \in keep
                 THEN Append(pick[k - 1],
                             [text |-> ms[k].metadata.text, title |-> ms[k].metadata.title,
                              url |-> ms[k].metadata.url, score |-> ms[k].score])
                 ELSE pick[k - 1]
    IN pick[Len(ms)]
\* for match in results['matches']: chunks.append({text, title, url, score})
FormatResults(ms) ==
    [k \in DOMAIN ms |->
        [text |-> ms[k].metadata.text, title |-> ms[k].metadata.title,
         url |-> ms[k].metadata.url, score |-> ms[k].score]]

OnSearchFailureEmpty == "returned"
\* search has no exception handler: a failed provider call ends it with
\* the exception
OnSearchFailure == "raised"

SearchInit ==
    /\ search_query \in Queries
    /\ top_k \in 1..MaxTopK
    /\ search_calls = <<>>
    /\ matches = <<>>
    /\ search_result = <<>>
    /\ search_pc = "embed"
    /\ chat_pc = "search"

SearchIdle ==
    /\ search_query = "none"
    /\ top_k = 0
    /\ search_calls = <<>>
    /\ matches = <<>>
    /\ search_result = <<>>
    /\ search_pc = "idle"
    /\ chat_pc = "idle"

\* query_embedding = self.generate_query_embedding(query)
SearchEmbed ==
    /\ search_pc = "embed"
    /\ \E ok \in BOOLEAN :
           /\ search_calls' = Append(search_calls,
                  [op |-> "embeddings.create", input |-> search_query, ok |-> ok])
           /\ search_pc' = IF ok THEN "query" ELSE OnSearchFailure
    /\ UNCHANGED <<search_query, top_k, matches, search_result, chat_pc>>
    /\ UNCHANGED notSearch

\* results = self.index.query(vector, top_k, include_metadata=True), then
\* the formatting loop and return chunks
SearchQuery ==
    /\ search_pc = "query"
    /\ \E ok \in BOOLEAN :
           /\ search_calls' = Append(search_calls,
                  [op |-> "index.query", vector |-> QueryVec(search_query),
                   top_k |-> top_k, ok |-> ok])
           /\ IF ok
              THEN \E response \in ProviderResponses(top_k) :
                       /\ matches' = response
                       /\ search_result' = FormatResults(response)
                       /\ search_pc' = "returned"
              ELSE /\ search_pc' = OnSearchFailure
                   /\ UNCHANGED <<matches, search_result>>
    /\ UNCHANGED <<search_query, top_k, chat_pc>>
    /\ UNCHANGED notSearch

\* chat: chunks = self.query_engine.search(...) returned, go on to
\* generate_answer
ChatReceive ==
    /\ chat_pc = "search"
    /\ search_pc = "returned"
    /\ chat_pc' = "generate"
    /\ UNCHANGED <<search_query, top_k, search_calls, matches, search_result, search_pc>>
    /\ UNCHANGED notSearch

\* chat has no exception handler around search: the exception leaves chat
ChatPropagate ==
    /\ chat_pc = "search"
    /\ search_pc = "raised"
    /\ chat_pc' = "raised"
    /\ UNCHANGED <<search_query, top_k, search_calls, matches, search_result, search_pc>>
    /\ UNCHANGED notSearch

\* =========================================================================
\* EmbeddingGenerator.generate_embedding and embed_chunks (legacy embedder)
\* =========================================================================
MaxGenChunks == 3

\* response.data[0].embedding for one text
GenEmbedding(t) == <<"embedding", t>>

\* The chunk dicts TextChunker.chunk_document hands on.
GenChunkLists ==
    UNION { { [k \in 1..n |->
                  [text |-> ts[k], chunk_index |-> k - 1, word_count |-> 1,
                   doc_url |-> "u", doc_title |-> "T"]] :
              ts \in [1..n -> {"a", "b"}] } : n \in 0..MaxGenChunks }

OnGenFailureSentinel(out, chunk) == Append(out, Put(chunk, "embedding", <<0>>))
\* generate_embedding returned None: the chunk is skipped
OnGenFailure(out, chunk) == out

GenInit ==
    /\ gen_chunks \in GenChunkLists
    /\ gen_given = gen_chunks
    /\ gen_i = 0
    /\ embedded_chunks = <<>>
    /\ gen_calls = <<>>
    /\ gen_pc = "loop"

GenIdle ==
    /\ gen_chunks = <<>>
    /\ gen_given = <<>>
    /\ gen_i = 0
    /\ embedded_chunks = <<>>
    /\ gen_calls = <<>>
    /\ gen_pc = "idle"

\* One loop iteration whose provider call succeeds: the vector is stored
\* in the chunk dict itself, and that dict is appended to the result.
GenEmbedSuccess ==
    /\ gen_pc = "loop"
    /\ gen_i < Len(gen_chunks)
    /\ LET k == gen_i + 1
           chunk == Put(gen_chunks[k], "embedding", GenEmbedding(gen_chunks[k].text))
       IN /\ gen_calls' = Append(gen_calls, [input |-> gen_chunks[k].text, ok |-> TRUE])
          /\ gen_chunks' = [gen_chunks EXCEPT ![k] = chunk]
          /\ embedded_chunks' = Append(embedded_chunks, chunk)
    /\ gen_i' = gen_i + 1
    /\ UNCHANGED <<gen_given, gen_pc>>
    /\ UNCHANGED notGen

\* One loop iteration whose provider call raises: generate_embedding
\* catches the exception and returns None.
GenEmbedFailure ==
    /\ gen_pc = "loop"
    /\ gen_i < Len(gen_chunks)
    /\ LET k == gen_i + 1
       IN /\ gen_calls' = Append(gen_calls, [input |-> gen_chunks[k].text, ok |-> FALSE])
          /\ embedded_chunks' = OnGenFailure(embedded_chunks, gen_chunks[k])
    /\ gen_i' = gen_i + 1
    /\ UNCHANGED <<gen_chunks, gen_given, gen_pc>>
    /\ UNCHANGED notGen

\* return embedded_chunks
GenReturn ==
    /\ gen_pc = "loop"
    /\ gen_i = Len(gen_chunks)
    /\ gen_pc' = "done"
    /\ UNCHANGED <<gen_chunks, gen_given, gen_i, embedded_chunks, gen_calls>>
    /\ UNCHANGED notGen

\* =========================================================================
\* AdvancedEmbedder.process_chunks_file: generate_embeddings_batch, then
\* create_index, then upload_to_pinecone
\* =========================================================================
MaxPipeTexts == 2

DefaultBatchSize == 100

EmbeddingStarted == embed_pc # "idle"
\* embeddings = self.generate_embeddings_batch(texts) has returned
EmbeddingFinished == embed_pc = "done"

\* A run starts with the texts of the loaded chunks, the default batch
\* size, and whatever index an earlier run left.
PipeInit ==
    /\ texts \in SeqsUpTo(1..NumTextIds, MaxPipeTexts)
    /\ batch_size = DefaultBatchSize
    /\ dimension = MaxDimension
    /\ all_embeddings = <<>>
    /\ embed_i = 0
    /\ retry_j = 0
    /\ embed_pc = "batch"
    /\ provider_calls = <<>>
    /\ ProviderInit
    /\ IndexIdle
    /\ UploadIdle
    /\ pipe_pc = "embed"
    /\ pipe_initial = providerVars

\* self.create_index() is entered
PipeCreateIndex ==
    /\ pipe_pc = "embed"
    /\ EmbeddingFinished
    /\ pipe_pc' = "index"
    /\ index_pc' = "list"
    /\ old_records' = idx_records
    /\ UNCHANGED <<polls, index_calls, pipe_initial>>
    /\ UNCHANGED <<embedVars, chunkerVars, legacyVars, enrichVars, providerVars,
                   uploadVars, searchVars, genVars, serveVars, otherVars>>

\* create_index returned: self.upload_to_pinecone(chunks, embeddings) is
\* entered with the loaded chunks and the embeddings just generated
PipeUpload ==
    /\ pipe_pc = "index"
    /\ index_pc = "returned"
    /\ pipe_pc' = "upload"
    /\ uploader' = "advanced"
    /\ upload_n' = Len(texts)
    /\ upload_embeddings' = all_embeddings
    /\ upload_pc' = "index"
    /\ UNCHANGED <<vectors, upload_i, upsert_calls, clock, pipe_initial>>
    /\ UNCHANGED <<embedVars, chunkerVars, legacyVars, enrichVars, providerVars,
                   indexVars, searchVars, genVars, serveVars, otherVars>>

\* upload_to_pinecone returned: the run prints its closing banner
PipeComplete ==
    /\ pipe_pc = "upload"
    /\ upload_pc = "returned"
    /\ pipe_pc' = "complete"
    /\ UNCHANGED pipe_initial
    /\ UNCHANGED <<embedVars, chunkerVars, legacyVars, enrichVars, providerVars,
                   indexVars, uploadVars, searchVars, genVars, serveVars, otherVars>>

\* create_index or upload_to_pinecone raised: process_chunks_file has no
\* handler, the exception ends the run
PipeRaise ==
    /\ \/ pipe_pc = "index" /\ index_pc = "create_error"
       \/ pipe_pc = "upload" /\ upload_pc = "raised"
    /\ pipe_pc' = "raised"
    /\ UNCHANGED pipe_initial
    /\ UNCHANGED <<embedVars, chunkerVars, legacyVars, enrichVars, providerVars,
                   indexVars, uploadVars, searchVars, genVars, serveVars, otherVars>>

\* =========================================================================
\* A running HealthQueryEngine beside an upload.  The provider variables
\* are the index the upload writes, named IndexNameOf(uploader); the engine
\* queries the index named QueryIndexName.
\* =========================================================================
MaxSearches == 2

AdvancedIndexName == "halsaveda-comprehensive"
LegacyIndexName == "halsaveda-index"

\* self.index = self.pc.Index('halsaveda-index')
QueryIndexName == "halsaveda-index"

\* self.index_name of the uploader
IndexNameOf(u) == IF u = "advanced" THEN AdvancedIndexName ELSE LegacyIndexName

\* The index a search queries: the one the upload writes when the names
\* agree; otherwise another index, which the upload never touches and which
\* exists and is ready since the engine opened it.
QueriedIndex ==
    IF QueryIndexName = IndexNameOf(uploader)
    THEN [state |-> idx_state, records |-> idx_records]
    ELSE [state |-> "ready", records |-> EarlierRecords("legacy", 1)]

RecordsOfRun(records, run) == {r \in records : r.run = run}

\* One search of the engine reaches index.query: what the queried index is
\* at that moment, next to what the upload has written so far.
SearchObserve ==
    /\ upload_pc # "idle"
    /\ Len(observed) < MaxSearches
    /\ observed' = Append(observed,
           [state |-> QueriedIndex.state,
            stored |-> Cardinality(RecordsOfRun(QueriedIndex.records, 1)),
            written |-> Cardinality(RecordsOfRun(idx_records, 1)),
            total |-> upload_n,
            upload |-> upload_pc])
    /\ UNCHANGED <<embedVars, chunkerVars, legacyVars, enrichVars, providerVars,
                   indexVars, uploadVars, searchVars, genVars, pipeVars, otherVars>>

\* =========================================================================
\* Two runs of process_chunks_file against the same index name.  The first
\* run is the pipeline above, taken from the moment its embeddings are
\* generated; the second run is another process executing the same
\* create_index and upload_to_pinecone code on the same provider index.
\* =========================================================================
\* Numbers of chunks of a run: one, and one more than an upload batch.
RaceCounts == {1, UploadBatchSize + 1}

\* The texts of the first run: only their number matters to the index.
RaceTexts == {[k \in 1..n |-> 1] : n \in RaceCounts}

\* The provider calls of an embedding of n texts in which every batch call
\* succeeded.
SuccessfulBatchCalls(n) ==
    [k \in 1..((n + DefaultBatchSize - 1) \div DefaultBatchSize) |->
        Call("batch", DefaultBatchSize * (k - 1) + 1, Min(DefaultBatchSize * k, n), TRUE)]

\* The index the two runs find: none, or a ready one an earlier run filled.
RaceProviderInit ==
    \/ ProviderIdle
    \/ /\ idx_state = "ready"
       /\ idx_records = EarlierRecords("advanced", 1)
       /\ idx_config = NewConfig

\* The first run has generated its embeddings, every batch call having
\* succeeded, and enters create_index.
RaceInit ==
    /\ texts \in RaceTexts
    /\ batch_size = DefaultBatchSize
    /\ dimension = MaxDimension
    /\ all_embeddings = BatchEmbeddings(texts)
    /\ embed_i = DefaultBatchSize * Len(SuccessfulBatchCalls(Len(texts)))
    /\ retry_j = 0
    /\ embed_pc = "done"
    /\ provider_calls = SuccessfulBatchCalls(Len(texts))
    /\ RaceProviderInit
    /\ IndexInit
    /\ UploadIdle
    /\ pipe_pc = "index"
    /\ pipe_initial = providerVars

\* The second run has generated the embeddings of its other_n chunks and
\* enters create_index.
OtherInit ==
    /\ other_pc = "list"
    /\ other_n \in RaceCounts
    /\ other_i = 0

otherFrame ==
    <<embedVars, chunkerVars, legacyVars, enrichVars, indexVars, uploadVars,
      searchVars, genVars, pipeVars, serveVars>>

\* The records the second run prepares: ids chunk_0 .. chunk_{n-1}.
OtherVectors == VectorsOf("advanced", other_n, PositionEmbeddings(other_n), 0, other_n, 2)

\* if self.index_name in [idx.name for idx in self.pc.list_indexes()]
OtherList ==
    /\ other_pc = "list"
    /\ other_pc' = NextAfterList(Listed)
    /\ UNCHANGED <<other_n, other_i, providerVars>>
    /\ UNCHANGED otherFrame

\* self.pc.delete_index(self.index_name)
OtherDelete ==
    /\ other_pc = "delete"
    /\ idx_state' = "terminating"
    /\ other_pc' = "sleep"
    /\ UNCHANGED <<other_n, other_i, idx_records, idx_config>>
    /\ UNCHANGED otherFrame

\* time.sleep(5)
OtherSleep ==
    /\ other_pc = "sleep"
    /\ other_pc' = "create"
    /\ UNCHANGED <<other_n, other_i, providerVars>>
    /\ UNCHANGED otherFrame

OtherCreateWhenFree ==
    /\ other_pc = "create"
    /\ idx_state = "absent"
    /\ idx_state' = "initializing"
    /\ idx_records' = {}
    /\ idx_config' = NewConfig
    /\ other_pc' = "poll"
    /\ UNCHANGED <<other_n, other_i>>
    /\ UNCHANGED otherFrame
\* self.pc.create_index(...): accepted when the name is free, refused (the
\* call raises and ends the run) when it is taken
OtherCreate ==
    /\ other_pc = "create"
    /\ IF idx_state = "absent"
       THEN /\ idx_state' = "initializing"
            /\ idx_records' = {}
            /\ idx_config' = NewConfig
            /\ other_pc' = "poll"
       ELSE /\ other_pc' = "create_error"
            /\ UNCHANGED providerVars
    /\ UNCHANGED <<other_n, other_i>>
    /\ UNCHANGED otherFrame

\* while not self.pc.describe_index(name).status['ready']: time.sleep(2)
OtherPoll ==
    /\ other_pc = "poll"
    /\ other_pc' = PollNext(idx_state = "ready")
    /\ UNCHANGED <<other_n, other_i, providerVars>>
    /\ UNCHANGED otherFrame

\* upload_to_pinecone is entered: index = self.pc.Index(self.index_name),
\* and the record list is prepared
OtherUploadEnter ==
    /\ other_pc = "returned"
    /\ other_pc' = "batches"
    /\ other_i' = 0
    /\ UNCHANGED <<other_n, providerVars>>
    /\ UNCHANGED otherFrame

\* one iteration of the upload loop: the upsert succeeds (only on a ready
\* index) or raises and ends the run
OtherUpsert ==
    /\ other_pc = "batches"
    /\ other_i < other_n
    /\ \E ok \in {idx_state = "ready", FALSE} :
           /\ idx_records' = IF ok THEN Upsert(idx_records, UploadSlice(OtherVectors, other_i))
                                    ELSE idx_records
           /\ other_pc' = IF ok THEN "batches" ELSE OnUpsertFailure("advanced")
           /\ other_i' = IF ok THEN other_i + UploadBatchSize ELSE other_i
    /\ UNCHANGED <<other_n, idx_state, idx_config>>
    /\ UNCHANGED otherFrame

\* the range is exhausted
OtherBatchesDone ==
    /\ other_pc = "batches"
    /\ other_i >= other_n
    /\ other_pc' = "stats"
    /\ UNCHANGED <<other_n, other_i, providerVars>>
    /\ UNCHANGED otherFrame

\* stats = index.describe_index_stats(), then the closing banner
OtherStats ==
    /\ other_pc = "stats"
    /\ other_pc' = IF Listed THEN "complete" ELSE "raised"
    /\ UNCHANGED <<other_n, other_i, providerVars>>
    /\ UNCHANGED otherFrame

RunOneStep ==
    \/ IndexList
    \/ IndexDelete
    \/ IndexSleep
    \/ IndexCreate
    \/ IndexPoll
    \/ PipeUpload
    \/ UploadOpenIndex
    \/ UploadPrepare
    \/ UploadBatch
    \/ UploadBatchesDone
    \/ UploadStats
    \/ PipeComplete
    \/ PipeRaise

RunTwoStep ==
    \/ OtherList
    \/ OtherDelete
    \/ OtherSleep
    \/ OtherCreate
    \/ OtherPoll
    \/ OtherUploadEnter
    \/ OtherUpsert
    \/ OtherBatchesDone
    \/ OtherStats

PipeIdle ==
    /\ pipe_pc = "idle"
    /\ pipe_initial = <<>>

ServeIdle == observed = <<>>

OtherIdle ==
    /\ other_pc = "idle"
    /\ other_n = 0
    /\ other_i = 0

ServiceIdle ==
    /\ EnrichIdle /\ ProviderIdle /\ IndexIdle /\ UploadIdle /\ SearchIdle
    /\ GenIdle /\ PipeIdle /\ ServeIdle /\ OtherIdle

\* =========================================================================
\* Specifications
\* =========================================================================
InitEmbed == EmbedInit /\ ChunkerIdle /\ LegacyIdle /\ ServiceIdle
NextEmbed ==
    \/ EmbedBatchSuccess
    \/ EmbedBatchFailure
    \/ EmbedRetrySuccess
    \/ EmbedRetryFailure
    \/ EmbedReturn
SpecEmbed == InitEmbed /\ [][NextEmbed]_vars

InitChunker == EmbedIdle /\ ChunkerInit /\ LegacyIdle /\ ServiceIdle
NextChunker ==
    \/ ChunkFallback
    \/ ChunkEnterSections
    \/ ChunkSectionWhole
    \/ ChunkSectionSplit
    \/ ChunkReturn
SpecChunker == InitChunker /\ [][NextChunker]_vars

InitLegacy == EmbedIdle /\ ChunkerIdle /\ LegacyInit /\ ServiceIdle
NextLegacy ==
    \/ LegacyConstruct
    \/ LegacyChunkTextEnter
    \/ LegacyLoopIteration
    \/ LegacyLoopExit
SpecLegacy == InitLegacy /\ [][NextLegacy]_vars

InitEnrich ==
    /\ EmbedIdle /\ ChunkerIdle /\ LegacyIdle /\ EnrichInit /\ ProviderIdle
    /\ IndexIdle /\ UploadIdle /\ SearchIdle /\ GenIdle
    /\ PipeIdle /\ ServeIdle /\ OtherIdle
NextEnrich ==
    \/ EnrichCall
    \/ EnrichDone
SpecEnrich == InitEnrich /\ [][NextEnrich]_vars

InitIndex ==
    /\ EmbedIdle /\ ChunkerIdle /\ LegacyIdle /\ EnrichIdle /\ ProviderInit
    /\ IndexInit /\ UploadIdle /\ SearchIdle /\ GenIdle
    /\ PipeIdle /\ ServeIdle /\ OtherIdle
CreateIndexStep ==
    \/ IndexList
    \/ IndexDelete
    \/ IndexSleep
    \/ IndexCreate
    \/ IndexPoll
NextIndex ==
    \/ CreateIndexStep
    \/ ProviderFinishDelete
    \/ ProviderBecomeReady
SpecIndex == InitIndex /\ [][NextIndex]_vars

\* create_index runs on (weak fairness on its steps) and the provider
\* finishes what it started.
SpecIndexFair ==
    /\ InitIndex
    /\ [][NextIndex]_vars
    /\ WF_vars(CreateIndexStep)
    /\ WF_vars(ProviderFinishDelete)
    /\ WF_vars(ProviderBecomeReady)

InitUpload ==
    /\ EmbedIdle /\ ChunkerIdle /\ LegacyIdle /\ EnrichIdle /\ IndexIdle /\ SearchIdle
    /\ UploadInit /\ UploadProviderInit /\ GenIdle
    /\ PipeIdle /\ ServeIdle /\ OtherIdle
NextUpload ==
    \/ UploadOpenIndex
    \/ UploadPrepare
    \/ UploadBatch
    \/ UploadBatchesDone
    \/ UploadStats
    \/ ProviderBecomeReady
SpecUpload == InitUpload /\ [][NextUpload]_vars

InitSearch ==
    /\ EmbedIdle /\ ChunkerIdle /\ LegacyIdle /\ EnrichIdle /\ ProviderIdle
    /\ IndexIdle /\ UploadIdle /\ SearchInit /\ GenIdle
    /\ PipeIdle /\ ServeIdle /\ OtherIdle
NextSearch ==
    \/ SearchEmbed
    \/ SearchQuery
    \/ ChatReceive
    \/ ChatPropagate
SpecSearch == InitSearch /\ [][NextSearch]_vars

InitGen ==
    /\ EmbedIdle /\ ChunkerIdle /\ LegacyIdle /\ EnrichIdle /\ ProviderIdle
    /\ IndexIdle /\ UploadIdle /\ SearchIdle /\ GenInit
    /\ PipeIdle /\ ServeIdle /\ OtherIdle
NextGen ==
    \/ GenEmbedSuccess
    \/ GenEmbedFailure
    \/ GenReturn
SpecGen == InitGen /\ [][NextGen]_vars

InitPipeline ==
    /\ ChunkerIdle /\ LegacyIdle /\ EnrichIdle /\ SearchIdle /\ GenIdle
    /\ ServeIdle /\ OtherIdle /\ PipeInit
NextPipeline ==
    \/ EmbedBatchSuccess
    \/ EmbedBatchFailure
    \/ EmbedRetrySuccess
    \/ EmbedRetryFailure
    \/ EmbedReturn
    \/ PipeCreateIndex
    \/ CreateIndexStep
    \/ ProviderFinishDelete
    \/ ProviderBecomeReady
    \/ PipeUpload
    \/ UploadOpenIndex
    \/ UploadPrepare
    \/ UploadBatch
    \/ UploadBatchesDone
    \/ UploadStats
    \/ PipeComplete
    \/ PipeRaise
SpecPipeline == InitPipeline /\ [][NextPipeline]_vars

InitServe ==
    /\ EmbedIdle /\ ChunkerIdle /\ LegacyIdle /\ EnrichIdle /\ IndexIdle /\ SearchIdle
    /\ UploadInit /\ UploadProviderInit /\ GenIdle
    /\ PipeIdle /\ ServeIdle /\ OtherIdle
NextServe ==
    \/ UploadOpenIndex
    \/ UploadPrepare
    \/ UploadBatch
    \/ UploadBatchesDone
    \/ UploadStats
    \/ ProviderBecomeReady
    \/ SearchObserve
SpecServe == InitServe /\ [][NextServe]_vars

InitRace ==
    /\ ChunkerIdle /\ LegacyIdle /\ EnrichIdle /\ SearchIdle /\ GenIdle
    /\ ServeIdle /\ RaceInit /\ OtherInit
NextRace ==
    \/ IndexList
    \/ IndexDelete
    \/ IndexSleep
    \/ IndexCreate
    \/ IndexPoll
    \/ PipeUpload
    \/ UploadOpenIndex
    \/ UploadPrepare
    \/ UploadBatch
    \/ UploadBatchesDone
    \/ UploadStats
    \/ PipeComplete
    \/ PipeRaise
    \/ OtherList
    \/ OtherDelete
    \/ OtherSleep
    \/ OtherCreate
    \/ OtherPoll
    \/ OtherUploadEnter
    \/ OtherUpsert
    \/ OtherBatchesDone
    \/ OtherStats
    \/ ProviderFinishDelete
    \/ ProviderBecomeReady
SpecRace == InitRace /\ [][NextRace]_vars

\* =========================================================================
\* Properties of generate_embeddings_batch (SpecEmbed)
\* =========================================================================
BatchCallOk(p) ==
    \E c \in 1..Len(provider_calls) :
        /\ provider_calls[c].kind = "batch"
        /\ provider_calls[c].ok
        /\ provider_calls[c].lo <= p
        /\ p <= provider_calls[c].hi

RetryCallOk(p) ==
    \E c \in 1..Len(provider_calls) :
        /\ provider_calls[c].kind = "single"
        /\ provider_calls[c].ok
        /\ provider_calls[c].lo = p

RetryCallFailed(p) ==
    \E c \in 1..Len(provider_calls) :
        /\ provider_calls[c].kind = "single"
        /\ ~provider_calls[c].ok
        /\ provider_calls[c].lo = p

IsZeroVector(v) == \A k \in DOMAIN v : v[k] = 0

\* C1: whatever the pattern of provider successes and failures, the list
\* that generate_embeddings_batch returns is as long as the input list.
C1_SameLength ==
    embed_pc = "done" => Len(all_embeddings) = Len(texts)

\* C1 witness: a run over at least three texts has returned after a failed
\* batch call, a failed retry, a successful retry and a successful batch call.
C1_Witness ==
    /\ embed_pc = "done"
    /\ Len(texts) >= 3
    /\ \E p \in 1..Len(texts) : BatchCallOk(p)
    /\ \E p \in 1..Len(texts) : RetryCallOk(p)
    /\ \E p \in 1..Len(texts) : RetryCallFailed(p)

\* C2: the returned list is aligned with the input: position p holds the
\* provider's vector for text p when its batch call or its individual retry
\* succeeded, and otherwise the all-zero vector of the declared dimension.
C2_Aligned ==
    embed_pc = "done" =>
        /\ DOMAIN all_embeddings = DOMAIN texts
        /\ \A p \in DOMAIN all_embeddings :
               IF BatchCallOk(p) \/ RetryCallOk(p)
               THEN all_embeddings[p] = ProviderVec(texts[p])
               ELSE /\ Len(all_embeddings[p]) = dimension
                    /\ IsZeroVector(all_embeddings[p])

\* C2 witness: a returned list over two different texts, of dimension two,
\* holding a zero vector before a provider vector.
C2_Witness ==
    /\ embed_pc = "done"
    /\ dimension = 2
    /\ \E p, q \in DOMAIN all_embeddings :
           /\ p < q
           /\ texts[p] # texts[q]
           /\ RetryCallFailed(p)
           /\ IsZeroVector(all_embeddings[p])
           /\ BatchCallOk(q) \/ RetryCallOk(q)
           /\ all_embeddings[q] = ProviderVec(texts[q])

\* =========================================================================
\* Properties of SemanticChunker (SpecChunker)
\* =========================================================================
RECURSIVE Flatten(_)
Flatten(ss) == IF ss = <<>> THEN <<>> ELSE Head(ss) \o Flatten(Tail(ss))

RECURSIVE SumSeq(_)
SumSeq(ns) == IF ns = <<>> THEN 0 ELSE Head(ns) + SumSeq(Tail(ns))

\* The paragraphs of the sections processed so far, in document order.
ProcessedParagraphs ==
    Flatten([k \in 1..section_idx |-> document.sections[k].content])

\* The text of chunk k starts with "<heading>. ".
HasHeadingPrefix(k) ==
    /\ Len(chunks[k].text) >= Len(chunks[k].heading) + 2
    /\ SubSeq(chunks[k].text, 1, Len(chunks[k].heading) + 2)
           = chunks[k].heading \o <<".", " ">>

\* The text of chunk k without its heading prefix.
ContentOf(k) ==
    SubSeq(chunks[k].text, Len(chunks[k].heading) + 3, Len(chunks[k].text))

\* The positions of the chunks emitted for section n.
ChunksOfSection(n) == {k \in DOMAIN chunks : provenance[k].section = n}

\* The words of the paragraphs of section n, counted paragraph by paragraph.
ParagraphWords(n) ==
    SumSeq([j \in DOMAIN document.sections[n].content |->
               WordCount(document.sections[n].content[j])])

\* C3: no chunk of the section-aware chunker has word_count = 0.
C3_NoZeroWordChunk ==
    \A k \in DOMAIN chunks : chunks[k].word_count # 0

\* C4: for a document with structured content, the chunks without their
\* heading prefix hold, in emission order, every paragraph of every section
\* exactly once and in document order.
C4_ParagraphsReproduced ==
    document.structured =>
        /\ DOMAIN provenance = DOMAIN chunks
        /\ \A k \in DOMAIN chunks :
               /\ HasHeadingPrefix(k)
               /\ chunks[k].heading = document.sections[provenance[k].section].heading
               /\ ContentOf(k) = JoinSpace(provenance[k].paras)
        /\ \A k \in DOMAIN chunks : \A m \in DOMAIN chunks :
               k < m => provenance[k].section <= provenance[m].section
        /\ Flatten([k \in DOMAIN chunks |-> provenance[k].paras]) = ProcessedParagraphs
        /\ Split(JoinSpace([k \in DOMAIN chunks |-> ContentOf(k)]))
               = Split(JoinSpace(ProcessedParagraphs))
        /\ chunker_pc = "done" => section_idx = Len(document.sections)

\* C4 witness: a finished two-section document with one section kept whole
\* and the other split into parts.
C4_Witness ==
    /\ chunker_pc = "done"
    /\ document.structured
    /\ Len(document.sections) = 2
    /\ \E k \in DOMAIN chunks : chunks[k].chunk_type = "section"
                                   /\ Len(provenance[k].paras) >= 1
    /\ \E k \in DOMAIN chunks : chunks[k].chunk_type = "section_part"
    /\ Len(chunks) >= 3

\* C5: a chunk exceeds max_chunk_size only when it is a section_part chunk
\* of exactly one paragraph that alone exceeds max_chunk_size.
C5_BoundedChunks ==
    \A k \in DOMAIN chunks :
        \/ /\ chunks[k].word_count <= max_chunk_size
           /\ document.structured => WordCount(ContentOf(k)) <= max_chunk_size
        \/ /\ chunks[k].chunk_type = "section_part"
           /\ Len(provenance[k].paras) = 1
           /\ WordCount(provenance[k].paras[1]) > max_chunk_size

\* C5 witness: a finished document with a part chunk of two paragraphs
\* within the bound and a part chunk of one over-long paragraph.
C5_Witness ==
    /\ chunker_pc = "done"
    /\ \E k \in DOMAIN chunks :
           /\ chunks[k].chunk_type = "section_part"
           /\ Len(provenance[k].paras) >= 2
           /\ chunks[k].word_count > 0
    /\ \E k \in DOMAIN chunks :
           /\ chunks[k].chunk_type = "section_part"
           /\ chunks[k].word_count > max_chunk_size

FeverChunkText ==
    <<"F", "e", "v", "e", "r", ".", " ", "A", "d", "u", "l", "t",
        "s", " ", "s", "h", "o", "u", "l", "d", " ", "r", "e", "s",
        "t", ".", " ", "S", "e", "e", " ", "a", " ", "d", "o", "c",
        "t", "o", "r", " ", "i", "f", " ", "f", "e", "v", "e", "r",
        " ", "e", "x", "c", "e", "e", "d", "s", " ", "t", "h", "r",
        "e", "e", " ", "d", "a", "y", "s", ".">>

\* C6: a processed section of at most max_chunk_size words has exactly one
\* chunk, of type section, whose text is the heading, ". " and the
\* paragraphs joined by single spaces, and whose word_count is the number
\* of words of the paragraphs; the Fever scenario gives one chunk of 11 words.
C6_WholeSection ==
    /\ \A n \in 1..section_idx :
           ParagraphWords(n) <= max_chunk_size
           => \E k \in DOMAIN chunks :
                  /\ ChunksOfSection(n) = {k}
                  /\ chunks[k].chunk_type = "section"
                  /\ chunks[k].text = document.sections[n].heading \o <<".", " ">>
                                          \o JoinSpace(document.sections[n].content)
                  /\ chunks[k].word_count = ParagraphWords(n)
                  /\ chunks[k].word_count
                         = WordCount(chunks[k].text) - WordCount(chunks[k].heading)
    /\ (document = FeverDocument /\ max_chunk_size = DefaultMaxChunkSize
            /\ chunker_pc = "done")
       => /\ Len(chunks) = 1
          /\ chunks[1].text = FeverChunkText
          /\ chunks[1].chunk_type = "section"
          /\ chunks[1].word_count = 11

\* C6 witness: the Fever document has been chunked at max_chunk_size 500.
C6_Witness ==
    /\ document = FeverDocument
    /\ max_chunk_size = DefaultMaxChunkSize
    /\ chunker_pc = "done"
    /\ Len(chunks) = 1

\* C7: for a processed section that was split, the word_count of its
\* section_part chunks adds up to the section's total word count.
C7_SplitWordCounts ==
    \A n \in 1..section_idx :
        WordCount(JoinSpace(document.sections[n].content)) > max_chunk_size =>
            /\ \A k \in ChunksOfSection(n) : chunks[k].chunk_type = "section_part"
            /\ SumSeq([k \in DOMAIN chunks |->
                          IF provenance[k].section = n THEN chunks[k].word_count ELSE 0])
                   = WordCount(JoinSpace(document.sections[n].content))

\* C7 witness: a section has been split into at least two parts, each with
\* words in it and one of them holding two paragraphs.
C7_Witness ==
    \E n \in 1..section_idx :
        /\ WordCount(JoinSpace(document.sections[n].content)) > max_chunk_size
        /\ Cardinality(ChunksOfSection(n)) >= 2
        /\ \A k \in ChunksOfSection(n) : chunks[k].word_count > 0
        /\ \E k \in ChunksOfSection(n) : Len(provenance[k].paras) >= 2

\* =========================================================================
\* Properties of TextChunker (SpecLegacy)
\* =========================================================================
\* ceil(a / b) for a >= 0 and b > 0
CeilDiv(a, b) == (a + b - 1) \div b

\* C8 as stated: ceil((N - overlap) / stride) chunks when N > overlap, and
\* one chunk for every N <= overlap, N = 0 included.
C8_ChunkCountAsStated ==
    (legacy_pc = "done" /\ Stride > 0) =>
        Len(legacy_chunks) =
            IF Len(words) > chunk_overlap
            THEN CeilDiv(Len(words) - chunk_overlap, Stride)
            ELSE 1

\* C8 amended: ceil((N - overlap) / stride) chunks when N > overlap, one
\* chunk when 0 < N <= overlap, and no chunk when N = 0; with chunk_size 300
\* and chunk_overlap 50 this is ceil((N - 50) / 250) for N > 50.
C8_ChunkCount ==
    (legacy_pc = "done" /\ Stride > 0) =>
        /\ Len(legacy_chunks) =
               IF Len(words) > chunk_overlap
               THEN CeilDiv(Len(words) - chunk_overlap, Stride)
               ELSE IF Len(words) = 0 THEN 0 ELSE 1
        /\ (chunk_size = 300 /\ chunk_overlap = 50 /\ Len(words) > 50)
               => Len(legacy_chunks) = CeilDiv(Len(words) - 50, 250)

\* C8 witness: a finished run with an overlap, at least three chunks and a
\* text length that the stride does not divide.
C8_Witness ==
    /\ legacy_pc = "done"
    /\ Stride > 0
    /\ chunk_overlap > 0
    /\ Len(legacy_chunks) >= 3
    /\ (Len(words) - chunk_overlap) % Stride # 0

\* C9: chunk i (0-based) holds exactly the words at positions
\* [i*stride, min(i*stride + chunk_size, N)), has chunk_index i, and is
\* followed by another chunk exactly when its window ends before N; so
\* every word is in a chunk and neighbours share chunk_overlap words.
C9_Windows ==
    (Stride > 0 /\ legacy_pc \in {"loop", "done"}) =>
        /\ \A k \in DOMAIN legacy_chunks :
               LET lo == (k - 1) * Stride
                   hi == Min(lo + chunk_size, Len(words))
               IN /\ legacy_chunks[k].text = [j \in 1..(hi - lo) |-> words[lo + j]]
                  /\ legacy_chunks[k].chunk_index = k - 1
                  /\ legacy_chunks[k].word_count = hi - lo
                  /\ k < Len(legacy_chunks) => lo + chunk_size < Len(words)
        /\ (legacy_pc = "done" /\ Len(words) > 0) =>
               /\ Len(legacy_chunks) >= 1
               /\ (Len(legacy_chunks) - 1) * Stride + chunk_size >= Len(words)
        /\ legacy_pc = "done" =>
               \A w \in Range(words) :
                   \E k \in DOMAIN legacy_chunks : w \in Range(legacy_chunks[k].text)
        /\ \A k \in DOMAIN legacy_chunks :
               k < Len(legacy_chunks) =>
                   Cardinality(Range(legacy_chunks[k].text)
                                   \cap Range(legacy_chunks[k + 1].text)) = chunk_overlap

\* C9 witness: a finished run of at least three chunks with an overlap,
\* whose last chunk is cut short by the end of the text.
C9_Witness ==
    /\ legacy_pc = "done"
    /\ Stride > 0
    /\ chunk_overlap > 0
    /\ Len(legacy_chunks) >= 3
    /\ legacy_chunks[Len(legacy_chunks)].word_count < chunk_size

\* C10: a chunker with chunk_overlap >= chunk_size is rejected when it is
\* constructed: it gets no further than a configuration error.
C10_NonPositiveStrideRejected ==
    Stride <= 0 => legacy_pc \in {"new", "config_error"}

\* =========================================================================
\* Properties of SemanticChunker.fallback_chunk (SpecChunker)
\* =========================================================================
\* C11: a document without structured_content is cut into windows of
\* max_chunk_size words with stride max_chunk_size, all of type fallback:
\* window i holds words [i*max, min((i+1)*max, N)), the windows in order are
\* the document's word sequence, and there are ceil(N / max_chunk_size).
C11_FallbackWindows ==
    (chunker_pc = "done" /\ ~document.structured) =>
        LET ws == Split(document.content)
        IN /\ Len(chunks) = CeilDiv(Len(ws), max_chunk_size)
           /\ \A k \in DOMAIN chunks :
                  LET lo == (k - 1) * max_chunk_size
                      hi == Min(k * max_chunk_size, Len(ws))
                  IN /\ chunks[k].chunk_type = "fallback"
                     /\ Split(chunks[k].text) = [j \in 1..(hi - lo) |-> ws[lo + j]]
                     /\ chunks[k].word_count = hi - lo
           /\ Flatten([k \in DOMAIN chunks |-> Split(chunks[k].text)]) = ws

\* C11 witness: a document without structured_content was cut into at least
\* two windows, the last one shorter than max_chunk_size.
C11_Witness ==
    /\ chunker_pc = "done"
    /\ ~document.structured
    /\ Len(chunks) >= 2
    /\ chunks[Len(chunks)].word_count < max_chunk_size
    /\ chunks[1].word_count = max_chunk_size

\* =========================================================================
\* Properties of enrich_metadata (SpecEnrich)
\* =========================================================================
\* The rule list of the claim, in its order.
CategoryRules ==
    << [marker |-> "sjukdomar--besvar", category |-> "diseases_conditions"],
       [marker |-> "barn--gravid", category |-> "children_pregnancy"],
       [marker |-> "liv--halsa", category |-> "lifestyle_health"],
       [marker |-> "hitta-vard", category |-> "finding_care"] >>

\* The URL of the k-th chunk handed to enrich_metadata ('' when it has none).
UrlOfInput(k) == Get(Get(enrich_input[k], "metadata", EmptyDict), "url", <<>>)

\* C12: the category is that of the earliest rule, in the order
\* diseases_conditions, children_pregnancy, lifestyle_health, finding_care,
\* whose marker the URL holds, and 'other' when no rule matches; two chunks
\* with the same URL get the same category.
C12_FirstMatchCategory ==
    /\ \A k \in DOMAIN enrich_out :
           LET matching == {r \in DOMAIN CategoryRules :
                               Contains(UrlOfInput(k), CategoryRules[r].marker)}
           IN IF matching = {}
              THEN enrich_out[k].category = "other"
              ELSE \E r \in matching :
                       /\ \A q \in matching : r <= q
                       /\ enrich_out[k].category = CategoryRules[r].category
    /\ \A k \in DOMAIN enrich_out : \A m \in DOMAIN enrich_out :
           UrlOfInput(k) = UrlOfInput(m) => enrich_out[k].category = enrich_out[m].category

\* C12 witness: two chunks were enriched, one whose URL matches the last
\* rule and an earlier one, and one whose URL matches no rule.
C12_Witness ==
    /\ enrich_pc = "done"
    /\ Len(enrich_out) = 2
    /\ Contains(UrlOfInput(1), "hitta-vard")
    /\ Contains(UrlOfInput(1), "barn--gravid")
    /\ enrich_out[1].category = "children_pregnancy"
    /\ UrlOfInput(2) = <<"kontakt">>
    /\ enrich_out[2].category = "other"

\* =========================================================================
\* Properties of create_index (SpecIndex, SpecIndexFair)
\* =========================================================================
\* C13: create is issued only once the old index is gone (never while it
\* is present or still deleting), and no delete call is issued when the
\* list call found no index of that name.
C13_CreateAfterDeletionObserved ==
    /\ \A k \in DOMAIN index_calls :
           index_calls[k].op = "create_index" => index_calls[k].state = "absent"
    /\ \A k \in DOMAIN index_calls :
           (index_calls[k].op = "delete_index") =>
               (index_calls[1].op = "list_indexes" /\ index_calls[1].state # "absent")

\* C14: when create_index has returned, the index exists and was seen
\* ready, has the fixed dimension and the cosine metric, and holds none of
\* the vectors stored before the call.
C14_ReturnedIndexFresh ==
    (index_pc = "returned") =>
        /\ idx_state = "ready"
        /\ polls >= 1
        /\ idx_config = NewConfig
        /\ idx_records \cap old_records = {}

\* C14 witness: create_index returned after replacing an index that held
\* vectors.
C14_Witness ==
    /\ index_pc = "returned"
    /\ old_records # {}
    /\ Len(index_calls) = 3
    /\ index_calls[2].op = "delete_index"

\* C15: the readiness poll only ever polls again or returns (it raises no
\* timeout), it returns only when the provider reports ready, and when the
\* provider does become ready create_index eventually returns.
C15_UnboundedPoll ==
    /\ [][index_pc = "poll" =>
            /\ index_pc' \in {"poll", "returned"}
            /\ (index_pc' = "returned" => idx_state = "ready")]_vars
    /\ [](index_pc # "timeout")
    /\ (index_pc = "poll") ~> (index_pc = "returned")

\* C15 witness: create_index returned after polling at least twice.
C15_Witness ==
    /\ index_pc = "returned"
    /\ polls >= 2

\* =========================================================================
\* Properties of upload_to_pinecone (SpecUpload)
\* =========================================================================
AllWritesOk == \A k \in DOMAIN upsert_calls : upsert_calls[k].ok

UploadFinished == upload_pc \in {"stats", "returned"}

\* The records of this upload that the index holds.
StoredByThisUpload == {r \in idx_records : r.run = 1}

\* C16: the k-th upsert call carries records [100(k-1), 100k) of the list
\* (at most 100, in list order), one call after the other; when no write
\* failed, the finished upload made ceil(n/100) calls whose batches
\* concatenate to the list, and every record is in the index.
C16_ConsecutiveBatches ==
    AllWritesOk =>
        /\ \A k \in DOMAIN upsert_calls :
               LET lo == UploadBatchSize * (k - 1)
                   hi == Min(UploadBatchSize * k, Len(vectors))
               IN /\ hi - lo <= UploadBatchSize
                  /\ upsert_calls[k].batch = [j \in 1..(hi - lo) |-> vectors[lo + j]]
        /\ UploadFinished =>
               /\ Len(upsert_calls) = CeilDiv(Len(vectors), UploadBatchSize)
               /\ Flatten([k \in DOMAIN upsert_calls |-> upsert_calls[k].batch]) = vectors
               /\ StoredByThisUpload = Range(vectors)

\* C16 witness: an upload of 201 records returned after three successful
\* writes, the last of one record.
C16_Witness ==
    /\ upload_pc = "returned"
    /\ AllWritesOk
    /\ Len(upsert_calls) = 3
    /\ Len(upsert_calls[3].batch) = 1

\* C17: after a failed batch write the upload does not raise, still
\* attempts every later batch, and the index holds of this upload exactly
\* the records of the batches that succeeded.
C17_FailedBatchSkipped ==
    (\E k \in DOMAIN upsert_calls : ~upsert_calls[k].ok) =>
        /\ upload_pc # "raised"
        /\ UploadFinished =>
               /\ Len(upsert_calls) = CeilDiv(Len(vectors), UploadBatchSize)
               /\ StoredByThisUpload =
                      UNION {Range(upsert_calls[k].batch) :
                                k \in {j \in DOMAIN upsert_calls : upsert_calls[j].ok}}

\* C18: the ids an upload generates are pairwise distinct, and none equals
\* the id of a record an earlier run stored in the index.
C18_UniqueIds ==
    /\ \A j \in DOMAIN vectors : \A k \in DOMAIN vectors :
           j # k => vectors[j].id # vectors[k].id
    /\ \A k \in DOMAIN vectors : \A r \in idx_records :
           r.run = 0 => r.id # vectors[k].id

\* =========================================================================
\* Properties of search and chat (SpecSearch)
\* =========================================================================
\* C19: a search that returned made exactly one embedding call for the
\* query and then exactly one index query for top_k matches with that
\* embedding, and its result lists text, title, url and score of every
\* match, in the provider's order, so at most top_k items.
C19_OneQueryProviderOrder ==
    (search_pc = "returned") =>
        /\ search_calls =
               << [op |-> "embeddings.create", input |-> search_query, ok |-> TRUE],
                  [op |-> "index.query", vector |-> QueryVec(search_query),
                   top_k |-> top_k, ok |-> TRUE] >>
        /\ Len(search_result) = Len(matches)
        /\ Len(search_result) <= top_k
        /\ \A k \in DOMAIN matches :
               /\ search_result[k].text = matches[k].metadata.text
               /\ search_result[k].title = matches[k].metadata.title
               /\ search_result[k].url = matches[k].metadata.url
               /\ search_result[k].score = matches[k].score
               /\ DOMAIN search_result[k] = {"text", "title", "url", "score"}

\* C19 witness: a search for three matches returned three, two of them
\* with the same text, title, url and score.
C19_Witness ==
    /\ search_pc = "returned"
    /\ Len(matches) = 3
    /\ matches[1].metadata = matches[2].metadata
    /\ matches[1].score = matches[2].score
    /\ matches[3].score < matches[2].score

\* C20: once the embedding call or the index query of a search has failed,
\* the search has raised: it has not returned a list, and chat does not go
\* on to generate an answer.
C20_FailurePropagates ==
    (\E k \in DOMAIN search_calls : ~search_calls[k].ok) =>
        /\ search_pc = "raised"
        /\ chat_pc \in {"search", "raised"}

\* C20 witness: the index query failed after a successful embedding call
\* and the exception has left chat.
C20_Witness ==
    /\ Len(search_calls) = 2
    /\ ~search_calls[2].ok
    /\ search_pc = "raised"
    /\ chat_pc = "raised"

\* =========================================================================
\* Further properties of generate_embeddings_batch (SpecEmbed)
\* =========================================================================
IsBatchCallFrom(p, lo) ==
    /\ provider_calls[p].kind = "batch"
    /\ provider_calls[p].lo = lo

\* C24: the first call is the batch call for the first batch; a successful
\* batch call is followed directly by the batch call for the next batch; a
\* failed batch call over b items is followed by exactly b individual
\* calls, one per item in batch order, and then by the batch call for the
\* next batch.
C24_RetryEachItemOnce ==
    /\ provider_calls # <<>> => IsBatchCallFrom(1, 1)
    /\ \A p \in DOMAIN provider_calls :
           LET c == provider_calls[p]
               b == c.hi - c.lo + 1
           IN c.kind = "batch" =>
                  IF c.ok
                  THEN p + 1 \in DOMAIN provider_calls => IsBatchCallFrom(p + 1, c.hi + 1)
                  ELSE /\ \A j \in 1..b :
                              p + j \in DOMAIN provider_calls =>
                                  /\ provider_calls[p + j].kind = "single"
                                  /\ provider_calls[p + j].lo = c.lo + j - 1
                                  /\ provider_calls[p + j].hi = c.lo + j - 1
                       /\ p + b + 1 \in DOMAIN provider_calls =>
                              IsBatchCallFrom(p + b + 1, c.hi + 1)
                       /\ embed_pc = "done" => p + b \in DOMAIN provider_calls

\* C24 witness: a finished run whose first batch call, over two items,
\* failed and whose second batch call succeeded: 1 + 2 + 1 calls.
C24_Witness ==
    /\ embed_pc = "done"
    /\ Len(provider_calls) = 4
    /\ provider_calls[1].kind = "batch" /\ ~provider_calls[1].ok
    /\ provider_calls[1].hi = 2
    /\ provider_calls[4].kind = "batch" /\ provider_calls[4].ok

\* =========================================================================
\* Further properties of SemanticChunker (SpecChunker)
\* =========================================================================
\* C30: fallback chunks come only from a document without
\* structured_content; a document with structured_content and no sections
\* yields no chunk; the chunks of one document are all fallback chunks or
\* none of them is.
C30_FallbackOnlyWithoutStructure ==
    (chunker_pc = "done") =>
        /\ (\E k \in DOMAIN chunks : chunks[k].chunk_type = "fallback") => ~document.structured
        /\ (document.structured /\ document.sections = <<>>) => chunks = <<>>
        /\ \A j \in DOMAIN chunks : \A k \in DOMAIN chunks :
               (chunks[j].chunk_type = "fallback") <=> (chunks[k].chunk_type = "fallback")

\* C30 witness: a document with structured_content, an empty section list
\* and a non-empty raw content was chunked into nothing.
C30_Witness ==
    /\ chunker_pc = "done"
    /\ document.structured
    /\ document.sections = <<>>
    /\ Split(document.content) # <<>>
    /\ chunks = <<>>

\* =========================================================================
\* Properties of the legacy embed_chunks (SpecGen)
\* =========================================================================
\* The positions of the chunks whose provider call succeeded, ascending.
GenOkPositions ==
    SelectSeq([k \in DOMAIN gen_calls |-> k], LAMBDA k : gen_calls[k].ok)

\* C29: embed_chunks makes one provider call per chunk, in order, and
\* returns the chunks whose call succeeded, in input order, each with the
\* provider's vector; a chunk whose call failed is left out.
C29_LegacyDropsFailed ==
    (gen_pc = "done") =>
        /\ Len(gen_calls) = Len(gen_given)
        /\ \A k \in DOMAIN gen_calls : gen_calls[k].input = gen_given[k].text
        /\ Len(embedded_chunks) = Len(GenOkPositions)
        /\ Len(embedded_chunks) <= Len(gen_given)
        /\ \A j \in DOMAIN embedded_chunks :
               embedded_chunks[j] =
                   Put(gen_given[GenOkPositions[j]], "embedding",
                       GenEmbedding(gen_given[GenOkPositions[j]].text))

\* C29 witness: of three chunks the second failed; the first and the third
\* were returned.
C29_Witness ==
    /\ gen_pc = "done"
    /\ Len(gen_given) = 3
    /\ GenOkPositions = <<1, 3>>
    /\ Len(embedded_chunks) = 2
    /\ embedded_chunks[2].chunk_index = 2

\* =========================================================================
\* Chunks as inputs of the later stages (SpecEnrich, SpecGen)
\* =========================================================================
\* C23: the chunk dicts handed to enrich_metadata and to embed_chunks are
\* at every moment what they were when handed over.
C23_ChunksNeverMutated ==
    /\ enrich_input = enrich_given
    /\ gen_chunks = gen_given

\* =========================================================================
\* Further properties of upload_to_pinecone (SpecUpload)
\* =========================================================================
\* C25: every upsert call is issued against an index that is ready.
C25_UpsertOnlyWhenReady ==
    \A k \in DOMAIN upsert_calls : upsert_calls[k].state = "ready"

\* =========================================================================
\* Properties of process_chunks_file (SpecPipeline)
\* =========================================================================
\* The vector generate_embeddings_batch computed for the text at position p.
ComputedVector(p) ==
    IF BatchCallOk(p) \/ RetryCallOk(p) THEN ProviderVec(texts[p]) ELSE Placeholder

\* C27: after a run over n chunks that completed, the index holds exactly
\* n records, and for every i < n exactly one record with id chunk_i, built
\* from chunk i and carrying the vector computed for chunk i (the zero
\* vector when its embedding failed).
C27_RunStoresAlignedRecords ==
    (pipe_pc = "complete") =>
        /\ Cardinality(idx_records) = Len(texts)
        /\ \A i \in 0..(Len(texts) - 1) :
               \E r \in idx_records :
                   /\ r.id = <<i>>
                   /\ r.chunk = i
                   /\ r.run = 1
                   /\ r.values = ComputedVector(i + 1)

\* C27 witness: a completed run over two chunks whose first embedding is
\* the zero vector and whose second is a provider vector.
C27_Witness ==
    /\ pipe_pc = "complete"
    /\ Len(texts) = 2
    /\ ~(BatchCallOk(1) \/ RetryCallOk(1))
    /\ RetryCallOk(2)
    /\ \E r \in idx_records : r.id = <<1>> /\ ~IsZeroVector(r.values)
    /\ \E r \in idx_records : r.id = <<0>> /\ IsZeroVector(r.values)

\* C28: list, delete and create calls on the index are issued only once
\* generate_embeddings_batch has returned, and until then the index holds
\* what it held when the run started and has not been deleted (an index
\* that was still being built may have become ready meanwhile).
C28_IndexUntouchedWhileEmbedding ==
    /\ index_calls # <<>> => embed_pc = "done"
    /\ embed_pc # "done" =>
           /\ idx_records = pipe_initial[2]
           /\ idx_config = pipe_initial[3]
           /\ \/ idx_state = pipe_initial[1]
              \/ pipe_initial[1] = "initializing" /\ idx_state = "ready"

\* C28 witness: the run deleted an existing index after an embedding phase
\* of three provider calls.
C28_Witness ==
    /\ pipe_pc \in {"index", "upload", "complete"}
    /\ Len(provider_calls) = 3
    /\ \E k \in DOMAIN index_calls : index_calls[k].op = "delete_index"
    /\ old_records # {}

\* =========================================================================
\* Properties of searches beside an upload (SpecServe)
\* =========================================================================
\* C21: whatever an upload has written, a search finds in the index it
\* queries: at every search the queried index holds as many records of the
\* upload as the upload has stored in its own index.
C21_SearchReadsWrittenIndex ==
    \A k \in DOMAIN observed : observed[k].stored = observed[k].written

\* C22: a search finds the index it queries ready and holding either none
\* or all of the records of the upload.
C22_SearchNeverSeesUploadInProgress ==
    \A k \in DOMAIN observed :
        /\ observed[k].state = "ready"
        /\ observed[k].stored \in {0, observed[k].total}

\* The first run has ended: completed, or stopped by an exception.
RunOneFinished == pipe_pc \in {"complete", "raised"}

\* The second run has ended likewise.
RunTwoFinished == other_pc \in {"complete", "create_error", "raised"}

\* The complete record set of the first run.
RunOneRecords == Range(VectorsOf("advanced", Len(texts), all_embeddings, 0, Len(texts), 1))

\* The complete record set of the second run.
RunTwoRecords == Range(OtherVectors)

\* C26: two pipeline runs against the same index name are unsynchronized:
\* at every moment each run that has not ended can take its next step,
\* whatever the other run is doing -- no step of a run waits for the
\* other run.  (The destructive outcome this allows is C26_Witness.)
C26_RunsUnsynchronized ==
    /\ ~RunOneFinished => ENABLED RunOneStep
    /\ ~RunTwoFinished => ENABLED RunTwoStep

\* Both runs have completed and the index holds neither run's complete
\* record set.
C26_Witness ==
    /\ pipe_pc = "complete"
    /\ other_pc = "complete"
    /\ ~(RunOneRecords \subseteq idx_records)
    /\ ~(RunTwoRecords \subseteq idx_records)

====
